---- MODULE Spec2Model ----
(***************************************************************************)
(* Model of sync2pod (sync_local_to_pod_optimized.py and, where a claim    *)
(* names it, sync_local_to_pod.py).                                        *)
(*                                                                         *)
(* Two specifications share this module:                                   *)
(*   WatchSpec  the live watcher, FileChangeHandler: the watchdog event    *)
(*              thread (upload_file), one thread per threading.Timer       *)
(*              (_debounced_upload) and the pool workers (_upload_file).   *)
(*              The handler takes no lock (file_locks is never used), so   *)
(*              each thread advances one dictionary operation at a time    *)
(*              and the threads interleave between those operations.       *)
(*   SyncSpec   upload_initial_files: remote inventory, local scan, plan,  *)
(*              archive fast path, fallback and the incremental executor.  *)
(* Time is not modelled: an armed timer may fire at any moment after it    *)
(* was started, which is every schedule the interpreter allows.            *)
(***************************************************************************)
EXTENDS Integers, Sequences, FiniteSets, TLC

(***************************************************************************)
(* Bounds of the model.                                                    *)
(***************************************************************************)
\* number of create/modify notifications the watcher receives in a run
MaxEvents == 2
\* max_workers of the ThreadPoolExecutor (configuration value)
MaxWorkers == 2

\* the files the watcher receives notifications for
Paths == {"p1", "p2"}

\* the retry bound of the copy loops
max_retries == 3

None == "None"

(***************************************************************************)
(* Strings of the reconciliation are sequences of one-character strings,   *)
(* so that startswith, slicing, lstrip, join and dirname act on characters *)
(* as they do in the source.                                               *)
(***************************************************************************)
\* the characters used, in code-point order (the order sorted() compares by)
Alphabet == <<".", "/", "0", "1", "2", "3", "4", "5", "6", "7", "8", "9",
              "a", "b", "c", "d", "e", "f", "g", "h", "k", "r", "x", "z">>

Rank(c) == CHOOSE i \in 1..Len(Alphabet) : Alphabet[i] = c

\* str.startswith
StartsWith(s, pre) == Len(pre) <= Len(s) /\ SubSeq(s, 1, Len(pre)) = pre

\* s < t for str
RECURSIVE StrLess(_, _)
StrLess(s, t) ==
    IF t = <<>> THEN FALSE
    ELSE IF s = <<>> THEN TRUE
    ELSE IF Head(s) # Head(t) THEN Rank(Head(s)) < Rank(Head(t))
    ELSE StrLess(Tail(s), Tail(t))

\* sorted(S) for a set of str: position i holds the element that has i - 1
\* smaller ones
Sorted(S) ==
    [i \in 1..Cardinality(S) |->
        CHOOSE x \in S : Cardinality({y \in S : StrLess(y, x)}) = i - 1]

\* s.lstrip('/')
RECURSIVE LStripSlash(_)
LStripSlash(s) ==
    IF s # <<>> /\ Head(s) = "/" THEN LStripSlash(Tail(s)) ELSE s

\* s.rstrip('/')
RECURSIVE RStripSlash(_)
RStripSlash(s) ==
    IF s # <<>> /\ s[Len(s)] = "/" THEN RStripSlash(SubSeq(s, 1, Len(s) - 1)) ELSE s

\* s.rfind('/') + 1
RECURSIVE RFindSlash1(_)
RFindSlash1(s) ==
    IF s = <<>> THEN 0
    ELSE IF s[Len(s)] = "/" THEN Len(s)
    ELSE RFindSlash1(SubSeq(s, 1, Len(s) - 1))

\* posixpath.dirname
Dirname(path) ==
    LET head == SubSeq(path, 1, RFindSlash1(path))
    IN IF head # <<>> /\ RStripSlash(head) # <<>> THEN RStripSlash(head) ELSE head

\* posixpath.basename
Basename(path) == SubSeq(path, RFindSlash1(path) + 1, Len(path))

\* posixpath.join(a, b)
PathJoin(a, b) ==
    IF b # <<>> /\ Head(b) = "/" THEN b
    ELSE IF a = <<>> \/ a[Len(a)] = "/" THEN a \o b
    ELSE a \o <<"/">> \o b

\* the name up to the first '/' of a relative path
RECURSIVE FirstName(_)
FirstName(s) ==
    IF s = <<>> \/ Head(s) = "/" THEN <<>> ELSE <<Head(s)>> \o FirstName(Tail(s))

\* MatchesExclude without the separator boundary
MatchesExclude_Prefix(rel_path, exclude_path) == StartsWith(rel_path, exclude_path)

\* rel_path == exclude_path or rel_path.startswith(exclude_path + os.sep)
\*                          or rel_path.startswith(exclude_path + '/')
MatchesExclude(rel_path, exclude_path) ==
    \/ rel_path = exclude_path
    \/ StartsWith(rel_path, exclude_path \o <<"/">>)

\* the loop over exclude_paths that sets should_exclude
ShouldExclude(rel_path, exclude_paths) ==
    \E i \in 1..Len(exclude_paths) : MatchesExclude(rel_path, exclude_paths[i])

\* name.startswith('.')
Hidden(name) == name # <<>> /\ Head(name) = "."

(***************************************************************************)
(* Notifications of the observer.  A file the watcher is notified about is *)
(* known to the handler by event.src_path; the model names the two files   *)
(* p1 and p2.                                                              *)
(***************************************************************************)
\* local_path, the watched root
LocalPath == <<"/", "w">>

\* the root-relative path of the file behind each name
SrcRel(p) == IF p = "p1" THEN <<"a", "/", "e">> ELSE <<"a", "b", "/", "c">>

\* event of a create/modify notification for file p
FileEvent(p) == [is_directory |-> FALSE, src_path |-> PathJoin(LocalPath, SrcRel(p))]

\* s.split(os.sep): the set of the parts
RECURSIVE SplitParts(_)
SplitParts(s) ==
    IF s = <<>> THEN {<<>>}
    ELSE LET part == FirstName(s)
         IN IF Len(part) = Len(s) THEN {part}
            ELSE {part} \cup SplitParts(SubSeq(s, Len(part) + 2, Len(s)))

\* str.endswith
EndsWith(s, suf) == Len(suf) <= Len(s) /\ SubSeq(s, Len(s) - Len(suf) + 1, Len(s)) = suf

\* sub in s
Contains(s, sub) ==
    \E i \in 1..(Len(s) - Len(sub) + 1) : SubSeq(s, i, i + Len(sub) - 1) = sub

\* any(temp_patterns) for file_name
IsTempName(file_name) ==
    \/ EndsWith(file_name, <<"~">>)
    \/ EndsWith(file_name, <<".", "s", "w", "p">>)
    \/ EndsWith(file_name, <<".", "s", "w", "o">>)
    \/ EndsWith(file_name, <<".", "s", "w", "n">>)
    \/ EndsWith(file_name, <<".", "t", "m", "p">>)
    \/ EndsWith(file_name, <<".", "b", "a", "k">>)
    \/ StartsWith(file_name, <<".", "#">>)
    \/ EndsWith(file_name, <<"#">>)
    \/ StartsWith(file_name, <<"~">>)
    \/ Contains(file_name, <<".", "t", "m", "p", ".">>)
    \/ EndsWith(file_name, <<".", "t", "e", "m", "p">>)

\* os.path.relpath(path, start) for a path below start
RelPath(path, start) == LStripSlash(SubSeq(path, Len(start) + 1, Len(path)))

\* the filter without the comparison with temp_patterns
Accepted_AnyName(event, local_path, exclude_paths) ==
    /\ ~event.is_directory
    /\ ~\E part \in SplitParts(event.src_path) : Hidden(part)
    /\ ~ShouldExclude(RelPath(event.src_path, local_path), exclude_paths)

\* on_modified / on_created up to the call of upload_file: TRUE when the
\* handler goes on to self.upload_file(event.src_path), FALSE when it returns
Accepted(event, local_path, exclude_paths) ==
    /\ ~event.is_directory
    /\ ~\E part \in SplitParts(event.src_path) : Hidden(part)
    /\ ~IsTempName(Basename(event.src_path))
    /\ ~ShouldExclude(RelPath(event.src_path, local_path), exclude_paths)

\* on_modified / on_created of sync_local_to_pod.py: the name of the file is
\* not compared with the temporary-file patterns
AcceptedBase(event, local_path, exclude_paths) ==
    /\ ~event.is_directory
    /\ ~\E part \in SplitParts(event.src_path) : Hidden(part)
    /\ ~ShouldExclude(RelPath(event.src_path, local_path), exclude_paths)

\* notifications the observer delivers: for each file the four kinds of event
\* on the file itself, a directory event, a sibling inside a dot-directory
\* and siblings with editor/temporary names
MaxIgnored == 1

NameVariants(rel) ==
    LET dir == SubSeq(rel, 1, Len(rel) - Len(Basename(rel)))
        name == Basename(rel)
    IN {rel \o suf : suf \in {<<"~">>, <<".", "s", "w", "p">>, <<".", "s", "w", "o">>,
                              <<".", "s", "w", "n">>, <<".", "t", "m", "p">>,
                              <<".", "b", "a", "k">>, <<".", "t", "e", "m", "p">>,
                              <<"#">>, <<".", "t", "m", "p", ".", "x">>}}
       \cup {dir \o pre \o name : pre \in {<<".", "#">>, <<"~">>}}
       \cup {<<".", "g", "/">> \o rel}

OtherEvents ==
    UNION {
        {[is_directory |-> TRUE, src_path |-> PathJoin(LocalPath, SrcRel(p)),
          event_type |-> "modified", key |-> p]}
        \cup {[is_directory |-> FALSE, src_path |-> PathJoin(LocalPath, SrcRel(p)),
               event_type |-> t, key |-> p] :
                  t \in {"created", "modified", "deleted", "moved"}}
        \cup {[is_directory |-> FALSE, src_path |-> PathJoin(LocalPath, rel),
               event_type |-> t, key |-> p] :
                  rel \in NameVariants(SrcRel(p)), t \in {"created", "modified"}}
        : p \in Paths}

\* the dispatch of an event to the handler: FileChangeHandler overrides
\* on_modified and on_created only, every other kind of event reaches the
\* empty methods of FileSystemEventHandler
Handled(event, local_path, exclude_paths) ==
    /\ event.event_type \in {"created", "modified"}
    /\ Accepted(event, local_path, exclude_paths)

(***************************************************************************)
(* State of the live watcher.                                              *)
(***************************************************************************)
VARIABLES
    debounce_timers,   \* self.debounce_timers: path -> timer id, 0 = no key
    processing_files,  \* self.processing_files: path -> task id, 0 = no key
    pending_uploads,   \* self.pending_uploads: the set of keys
    timers,            \* every threading.Timer created, in creation order
    tasks,             \* every future submitted to the executor, in order
    ev,                \* the watchdog thread: position in upload_file
    \* history variables, read by the properties only
    dirty,             \* path -> a change has arrived that no copy call started after
    evCount,           \* path -> accepted events so far ("ignored": the others)
    burst              \* path -> every event so far came while the path was idle
                       \*         or while the timer of the previous event was waiting

wvars == <<debounce_timers, processing_files, pending_uploads, timers, tasks,
           ev, dirty, evCount, burst>>

(***************************************************************************)
(* State of upload_initial_files.                                          *)
(***************************************************************************)
VARIABLES
    spc,                    \* position in upload_initial_files
    inp,                    \* local tree, remote listing, exclude_paths, max_workers
    remote_files_md5,       \* relative path -> digest
    directories_to_create,
    files_to_upload,        \* the relative paths, in scan order
    files_skipped,
    walk,                   \* the files the scan loop has still to visit
    archive,                \* member names of the archive compress_dir wrote
    filtered_dirs,
    utasks,                 \* the futures of the incremental executor, in order
    completed_files,        \* the progress counter shared by the workers
    successful_uploads,
    failed_uploads,
    \* history variables, read by the properties only
    fetches,                \* calls of get_remote_files_md5
    scans,                  \* walks of the local tree by the scan loop
    issued,                 \* the kinds of remote operation issued so far
    copies                  \* the files a copy call was made for

plan == <<remote_files_md5, directories_to_create, files_to_upload, files_skipped, walk>>
pool == <<utasks, completed_files, successful_uploads, failed_uploads>>
svars == <<spc, inp, plan, archive, filtered_dirs, pool, fetches, scans, issued, copies>>

vars == <<wvars, svars>>

TimerIds == 1..Len(timers)
TaskIds == 1..Len(tasks)

\* Future.done(): finished or cancelled
Done(k) == tasks[k].st \in {"done", "cancelled"}

\* a worker thread is running the task (from the call of _upload_file until
\* the future is marked done)
Executing(k) == tasks[k].st \notin {"queued", "done", "cancelled"}

\* Thread.is_alive() of a started timer
IsAlive(t) == timers[t].st \notin {"finished", "dead", "cancelled"}

\* a timer that is started, not cancelled, and has not fired yet
Armed(t) == timers[t].st = "waiting"

\* cancel_called and by are history: cancel() has been called on the timer,
\* and the task whose finally block created it (0 for upload_file)
NewTimer(p) == [path |-> p, st |-> "waiting", fut |-> 0, cancel_called |-> FALSE,
                by |-> 0]
NewTask(p) == [path |-> p, st |-> "queued", attempt |-> 0, calls |-> 0,
               ok |-> FALSE, failed |-> FALSE]

WatchInit ==
    /\ debounce_timers = [p \in Paths |-> 0]
    /\ processing_files = [p \in Paths |-> 0]
    /\ pending_uploads = {}
    /\ timers = <<>>
    /\ tasks = <<>>
    /\ ev = [pc |-> "idle", path |-> None, old |-> 0, busy |-> FALSE]
    /\ dirty = [p \in Paths |-> FALSE]
    /\ evCount = [p \in Paths \cup {"ignored"} |-> 0]
    /\ burst = [p \in Paths |-> TRUE]

(***************************************************************************)
(* upload_file, on the watchdog thread (one event is handled at a time).   *)
(***************************************************************************)
PathIdle(p) ==
    /\ debounce_timers[p] = 0
    /\ processing_files[p] = 0
    /\ p \notin pending_uploads
    /\ \A t \in TimerIds : timers[t].path = p => ~IsAlive(t)
    /\ \A k \in TaskIds : tasks[k].path = p => Done(k)

RECURSIVE SumOver(_, _)
SumOver(f, S) ==
    IF S = {} THEN 0
    ELSE LET x == CHOOSE y \in S : TRUE IN f[x] + SumOver(f, S \ {x})

\* notifications delivered so far
NumEvents == SumOver(evCount, Paths)

\* on_created / on_modified accepted the notification and call upload_file
\* self.upload_file(event.src_path) is entered for file p
EnterUploadFile(p) ==
    /\ NumEvents < MaxEvents
    /\ ev' = [pc |-> IF inp.script = "base" THEN "B430" ELSE "L713",
              path |-> p, old |-> 0,
              \* history: an upload of p was in flight when the event came
              busy |-> \E k \in TaskIds : tasks[k].path = p /\ ~Done(k)]
    /\ dirty' = [dirty EXCEPT ![p] = TRUE]
    /\ evCount' = [evCount EXCEPT ![p] = @ + 1]
    /\ burst' = [burst EXCEPT ![p] =
                    /\ @
                    /\ IF evCount[p] = 0
                       THEN PathIdle(p)
                       ELSE /\ debounce_timers[p] # 0
                            /\ Armed(debounce_timers[p])]

\* the event the observer delivers for file p: src_path starts with the
\* watched path as it was given to observer.schedule
WatchedEvent(p) ==
    [is_directory |-> FALSE, src_path |-> PathJoin(inp.local_path, SrcRel(p))]

Event(p) ==
    /\ spc = "off"
    /\ ev.pc = "idle"
    /\ IF inp.script = "base"
       THEN AcceptedBase(WatchedEvent(p), inp.local_path, inp.exclude_paths)
       ELSE Accepted(WatchedEvent(p), inp.local_path, inp.exclude_paths)
    /\ EnterUploadFile(p)
    /\ UNCHANGED <<debounce_timers, processing_files, pending_uploads, timers, tasks, svars>>

\* a notification of OtherEvents: on_modified / on_created return before
\* upload_file when the event is filtered, and call it otherwise
Notify(e) ==
    /\ spc = "off"
    /\ ev.pc = "idle"
    /\ inp.script = "optimized"
    /\ IF Handled(e, LocalPath, inp.exclude_paths)
       THEN EnterUploadFile(e.key)
       ELSE /\ evCount["ignored"] < MaxIgnored
            /\ evCount' = [evCount EXCEPT !["ignored"] = @ + 1]
            /\ UNCHANGED <<ev, dirty, burst>>
    /\ UNCHANGED <<debounce_timers, processing_files, pending_uploads, timers, tasks, svars>>

\* if file_path in self.debounce_timers:
UfTestTimer ==
    /\ ev.pc = "L713"
    /\ ev' = [ev EXCEPT !.pc = IF debounce_timers[ev.path] # 0 THEN "L714" ELSE "L722"]
    /\ UNCHANGED <<debounce_timers, processing_files, pending_uploads, timers, tasks,
                   dirty, evCount, burst, svars>>

\* old_timer = self.debounce_timers[file_path]   (KeyError if the key is gone)
UfReadTimer ==
    /\ ev.pc = "L714"
    /\ ev' = IF debounce_timers[ev.path] # 0
             THEN [ev EXCEPT !.pc = "L715", !.old = debounce_timers[ev.path]]
             ELSE [ev EXCEPT !.pc = "crashed"]
    /\ UNCHANGED <<debounce_timers, processing_files, pending_uploads, timers, tasks,
                   dirty, evCount, burst, svars>>

\* if old_timer.is_alive(): old_timer.cancel()
\* Timer.cancel() sets the finished flag; it stops a timer that is still
\* waiting and has no effect on one whose callback has started.
UfCancel ==
    /\ ev.pc = "L715"
    /\ timers' = IF Armed(ev.old)
                 THEN [timers EXCEPT ![ev.old].st = "cancelled",
                                     ![ev.old].cancel_called = TRUE]
                 ELSE IF IsAlive(ev.old)
                      THEN [timers EXCEPT ![ev.old].cancel_called = TRUE]
                      ELSE timers
    /\ ev' = [ev EXCEPT !.pc = "L719"]
    /\ UNCHANGED <<debounce_timers, processing_files, pending_uploads, tasks,
                   dirty, evCount, burst, svars>>

\* del self.debounce_timers[file_path]   (KeyError if the key is gone)
UfDelTimer ==
    /\ ev.pc = "L719"
    /\ IF debounce_timers[ev.path] # 0
       THEN /\ debounce_timers' = [debounce_timers EXCEPT ![ev.path] = 0]
            /\ ev' = [ev EXCEPT !.pc = "L722", !.old = 0]
       ELSE /\ ev' = [ev EXCEPT !.pc = "crashed"]
            /\ UNCHANGED debounce_timers
    /\ UNCHANGED <<processing_files, pending_uploads, timers, tasks,
                   dirty, evCount, burst, svars>>

\* if file_path in self.processing_files:
UfTestProcessing ==
    /\ ev.pc = "L722"
    /\ ev' = [ev EXCEPT !.pc = IF processing_files[ev.path] # 0 THEN "L723" ELSE "L735"]
    /\ UNCHANGED <<debounce_timers, processing_files, pending_uploads, timers, tasks,
                   dirty, evCount, burst, svars>>

\* old_future = self.processing_files[file_path]   (KeyError if the key is gone)
UfReadProcessing ==
    /\ ev.pc = "L723"
    /\ ev' = IF processing_files[ev.path] # 0
             THEN [ev EXCEPT !.pc = "L724", !.old = processing_files[ev.path]]
             ELSE [ev EXCEPT !.pc = "crashed"]
    /\ UNCHANGED <<debounce_timers, processing_files, pending_uploads, timers, tasks,
                   dirty, evCount, burst, svars>>

\* if not old_future.done():
UfTestDone ==
    /\ ev.pc = "L724"
    /\ ev' = [ev EXCEPT !.pc = IF ~Done(ev.old) THEN "L726" ELSE "L735"]
    /\ UNCHANGED <<debounce_timers, processing_files, pending_uploads, timers, tasks,
                   dirty, evCount, burst, svars>>

\* self.pending_uploads[file_path] = True; return
UfSetPending ==
    /\ ev.pc = "L726"
    /\ pending_uploads' = pending_uploads \cup {ev.path}
    /\ ev' = [pc |-> "idle", path |-> None, old |-> 0, busy |-> FALSE]
    /\ UNCHANGED <<debounce_timers, processing_files, timers, tasks,
                   dirty, evCount, burst, svars>>

\* UfArm waiting for a free worker of the pool
UfArm_WhenWorkerFree ==
    /\ ev.pc = "L735"
    /\ Cardinality({j \in TaskIds : Executing(j)}) < inp.max_workers
    /\ timers' = Append(timers, NewTimer(ev.path))
    /\ debounce_timers' = [debounce_timers EXCEPT ![ev.path] = Len(timers) + 1]
    /\ ev' = [pc |-> "idle", path |-> None, old |-> 0, busy |-> FALSE]
    /\ UNCHANGED <<processing_files, pending_uploads, tasks,
                   dirty, evCount, burst, svars>>

\* timer = threading.Timer(...); self.debounce_timers[file_path] = timer; timer.start()
UfArm ==
    /\ ev.pc = "L735"
    /\ timers' = Append(timers, NewTimer(ev.path))
    /\ debounce_timers' = [debounce_timers EXCEPT ![ev.path] = Len(timers) + 1]
    /\ ev' = [pc |-> "idle", path |-> None, old |-> 0, busy |-> FALSE]
    /\ UNCHANGED <<processing_files, pending_uploads, tasks,
                   dirty, evCount, burst, svars>>

(***************************************************************************)
(* _debounced_upload, on the thread of timer t (threading.Timer.run).      *)
(***************************************************************************)
WEvUnchanged == UNCHANGED <<ev, evCount, burst, svars>>

\* the interval elapsed and the finished flag was not set: the callback starts
Fire(t) ==
    /\ Armed(t)
    /\ timers' = [timers EXCEPT ![t].st = "L744"]
    /\ UNCHANGED <<debounce_timers, processing_files, pending_uploads, tasks, dirty>>
    /\ WEvUnchanged

\* if file_path in self.debounce_timers:
DuTestTimer(t) ==
    /\ timers[t].st = "L744"
    /\ timers' = [timers EXCEPT ![t].st =
                     IF debounce_timers[timers[t].path] # 0 THEN "L745" ELSE "L748"]
    /\ UNCHANGED <<debounce_timers, processing_files, pending_uploads, tasks, dirty>>
    /\ WEvUnchanged

\* DuDelTimer emptying the whole dictionary
DuDelTimer_ClearAll(t) ==
    /\ timers[t].st = "L745"
    /\ IF debounce_timers[timers[t].path] # 0
       THEN /\ debounce_timers' = [p \in Paths |-> 0]
            /\ timers' = [timers EXCEPT ![t].st = "L748"]
       ELSE /\ timers' = [timers EXCEPT ![t].st = "dead"]
            /\ UNCHANGED debounce_timers
    /\ UNCHANGED <<processing_files, pending_uploads, tasks, dirty>>
    /\ WEvUnchanged

\* del self.debounce_timers[file_path]: removes the key whichever timer it holds
DuDelTimer(t) ==
    /\ timers[t].st = "L745"
    /\ IF debounce_timers[timers[t].path] # 0
       THEN /\ debounce_timers' = [debounce_timers EXCEPT ![timers[t].path] = 0]
            /\ timers' = [timers EXCEPT ![t].st = "L748"]
       ELSE /\ timers' = [timers EXCEPT ![t].st = "dead"]
            /\ UNCHANGED debounce_timers
    /\ UNCHANGED <<processing_files, pending_uploads, tasks, dirty>>
    /\ WEvUnchanged

\* if file_path in self.processing_files:
DuTestProcessing(t) ==
    /\ timers[t].st = "L748"
    /\ timers' = [timers EXCEPT ![t].st =
                     IF processing_files[timers[t].path] # 0 THEN "L749" ELSE "L761"]
    /\ UNCHANGED <<debounce_timers, processing_files, pending_uploads, tasks, dirty>>
    /\ WEvUnchanged

\* old_future = self.processing_files[file_path]
DuReadProcessing(t) ==
    /\ timers[t].st = "L749"
    /\ timers' = IF processing_files[timers[t].path] # 0
                 THEN [timers EXCEPT ![t].st = "L750",
                                     ![t].fut = processing_files[timers[t].path]]
                 ELSE [timers EXCEPT ![t].st = "dead"]
    /\ UNCHANGED <<debounce_timers, processing_files, pending_uploads, tasks, dirty>>
    /\ WEvUnchanged

\* if not old_future.done():
DuTestDone(t) ==
    /\ timers[t].st = "L750"
    /\ timers' = [timers EXCEPT ![t].st = IF ~Done(timers[t].fut) THEN "L752" ELSE "L761"]
    /\ UNCHANGED <<debounce_timers, processing_files, pending_uploads, tasks, dirty>>
    /\ WEvUnchanged

\* self.pending_uploads[file_path] = True; return
DuSetPending(t) ==
    /\ timers[t].st = "L752"
    /\ pending_uploads' = pending_uploads \cup {timers[t].path}
    /\ timers' = [timers EXCEPT ![t].st = "finished", ![t].fut = 0]
    /\ UNCHANGED <<debounce_timers, processing_files, tasks, dirty>>
    /\ WEvUnchanged

\* future = self.executor.submit(self._upload_file, file_path)
DuSubmit(t) ==
    /\ timers[t].st = "L761"
    /\ tasks' = Append(tasks, NewTask(timers[t].path))
    /\ timers' = [timers EXCEPT ![t].st = "L762", ![t].fut = Len(tasks) + 1]
    /\ UNCHANGED <<debounce_timers, processing_files, pending_uploads, dirty>>
    /\ WEvUnchanged

\* self.processing_files[file_path] = future
DuStore(t) ==
    /\ timers[t].st = "L762"
    /\ processing_files' = [processing_files EXCEPT ![timers[t].path] = timers[t].fut]
    /\ timers' = [timers EXCEPT ![t].st = "finished", ![t].fut = 0]
    /\ UNCHANGED <<debounce_timers, pending_uploads, tasks, dirty>>
    /\ WEvUnchanged

(***************************************************************************)
(* _upload_file, task k on a pool worker.                                  *)
(***************************************************************************)
\* A free worker takes the oldest queued work item and runs _upload_file up
\* to its first copy call: os.path.getsize (which raises when the file has
\* vanished, and then there is no content left to send), the remote mkdir
\* (its result is only logged) and the entry into
\* subprocess.run(command, check=True), which reads the file.
Start(k) ==
    /\ inp.script = "optimized"
    /\ tasks[k].st = "queued"
    /\ \A j \in TaskIds : j < k => tasks[j].st # "queued"
    /\ Cardinality({j \in TaskIds : Executing(j)}) < inp.max_workers
    /\ \E exists \in BOOLEAN :
          /\ tasks' = [tasks EXCEPT ![k].st = IF exists THEN "cp" ELSE "L811",
                                    ![k].calls = IF exists THEN 1 ELSE 0]
          /\ dirty' = [dirty EXCEPT ![tasks[k].path] = FALSE]
    /\ UNCHANGED <<debounce_timers, processing_files, pending_uploads, timers>>
    /\ WEvUnchanged

\* RetryStep with the loop running one attempt longer
RetryStep_OneMore(task, success) ==
    IF success
    THEN [task EXCEPT !.st = "L811", !.ok = TRUE]
    ELSE IF task.attempt < max_retries
         THEN [task EXCEPT !.st = "cp", !.attempt = @ + 1, !.calls = @ + 1]
         ELSE [task EXCEPT !.st = "L811", !.failed = TRUE]

\* One attempt of the retry loop ends: return on success; on
\* CalledProcessError the next attempt while attempt < max_retries - 1, else
\* the failure is reported and the loop ends.
RetryStep(task, success) ==
    IF success
    THEN [task EXCEPT !.st = "L811", !.ok = TRUE]
    ELSE IF task.attempt < max_retries - 1
         THEN [task EXCEPT !.st = "cp", !.attempt = @ + 1, !.calls = @ + 1]
         ELSE [task EXCEPT !.st = "L811", !.failed = TRUE]

\* the copy call in flight returns; a retry enters the next copy call, which
\* reads the file again
CopyReturn(k) ==
    /\ tasks[k].st = "cp"
    /\ \E success \in BOOLEAN :
          /\ tasks' = [tasks EXCEPT ![k] = RetryStep(@, success)]
          /\ dirty' = IF tasks'[k].st = "cp"
                      THEN [dirty EXCEPT ![tasks[k].path] = FALSE]
                      ELSE dirty
    /\ UNCHANGED <<debounce_timers, processing_files, pending_uploads, timers>>
    /\ WEvUnchanged

\* finally: if file_path in self.processing_files:
\* (the locals of the retry loop are not read again)
FinTestProcessing(k) ==
    /\ tasks[k].st = "L811"
    /\ tasks' = [tasks EXCEPT ![k] =
                    [NewTask(@.path) EXCEPT !.st =
                        IF processing_files[tasks[k].path] # 0 THEN "L812" ELSE "L815"]]
    /\ UNCHANGED <<debounce_timers, processing_files, pending_uploads, timers, dirty>>
    /\ WEvUnchanged

\* del self.processing_files[file_path]: removes the key whichever future it
\* holds; a KeyError leaves the finally block
FinDelProcessing(k) ==
    /\ tasks[k].st = "L812"
    /\ IF processing_files[tasks[k].path] # 0
       THEN /\ processing_files' = [processing_files EXCEPT ![tasks[k].path] = 0]
            /\ tasks' = [tasks EXCEPT ![k].st = "L815"]
       ELSE /\ tasks' = [tasks EXCEPT ![k].st = "exit"]
            /\ UNCHANGED processing_files
    /\ UNCHANGED <<debounce_timers, pending_uploads, timers, dirty>>
    /\ WEvUnchanged

\* if file_path in self.pending_uploads:
FinTestPending(k) ==
    /\ tasks[k].st = "L815"
    /\ tasks' = [tasks EXCEPT ![k].st =
                    IF tasks[k].path \in pending_uploads THEN "L816" ELSE "exit"]
    /\ UNCHANGED <<debounce_timers, processing_files, pending_uploads, timers, dirty>>
    /\ WEvUnchanged

\* del self.pending_uploads[file_path]
FinDelPending(k) ==
    /\ tasks[k].st = "L816"
    /\ IF tasks[k].path \in pending_uploads
       THEN /\ pending_uploads' = pending_uploads \ {tasks[k].path}
            /\ tasks' = [tasks EXCEPT ![k].st = "L822"]
       ELSE /\ tasks' = [tasks EXCEPT ![k].st = "exit"]
            /\ UNCHANGED pending_uploads
    /\ UNCHANGED <<debounce_timers, processing_files, timers, dirty>>
    /\ WEvUnchanged

\* timer = threading.Timer(...); self.debounce_timers[file_path] = timer; timer.start()
FinArm(k) ==
    /\ tasks[k].st = "L822"
    /\ timers' = Append(timers, [NewTimer(tasks[k].path) EXCEPT !.by = k])
    /\ debounce_timers' = [debounce_timers EXCEPT ![tasks[k].path] = Len(timers) + 1]
    /\ tasks' = [tasks EXCEPT ![k].st = "exit"]
    /\ UNCHANGED <<processing_files, pending_uploads, dirty>>
    /\ WEvUnchanged

\* _upload_file has returned or raised: the worker marks the future done
Complete(k) ==
    /\ tasks[k].st = "exit"
    /\ tasks' = [tasks EXCEPT ![k].st = "done"]
    /\ UNCHANGED <<debounce_timers, processing_files, pending_uploads, timers, dirty>>
    /\ WEvUnchanged

\* one step of one thread of the watcher
WatchStep ==
    \/ \E p \in Paths : Event(p)
    \/ UfTestTimer \/ UfReadTimer \/ UfCancel \/ UfDelTimer
    \/ UfTestProcessing \/ UfReadProcessing \/ UfTestDone \/ UfSetPending \/ UfArm
    \/ \E t \in TimerIds : Fire(t)
    \/ \E t \in TimerIds : DuTestTimer(t)
    \/ \E t \in TimerIds : DuDelTimer(t)
    \/ \E t \in TimerIds : DuTestProcessing(t)
    \/ \E t \in TimerIds : DuReadProcessing(t)
    \/ \E t \in TimerIds : DuTestDone(t)
    \/ \E t \in TimerIds : DuSetPending(t)
    \/ \E t \in TimerIds : DuSubmit(t)
    \/ \E t \in TimerIds : DuStore(t)
    \/ \E k \in TaskIds : Start(k)
    \/ \E k \in TaskIds : CopyReturn(k)
    \/ \E k \in TaskIds : FinTestProcessing(k)
    \/ \E k \in TaskIds : FinDelProcessing(k)
    \/ \E k \in TaskIds : FinTestPending(k)
    \/ \E k \in TaskIds : FinDelPending(k)
    \/ \E k \in TaskIds : FinArm(k)
    \/ \E k \in TaskIds : Complete(k)

(***************************************************************************)
(* FileChangeHandler of sync_local_to_pod.py: upload_file, on the watchdog *)
(* thread, submits _upload_file to the executor itself; there is no timer  *)
(* and no pending_uploads.                                                 *)
(***************************************************************************)
BEvUnchanged == UNCHANGED <<debounce_timers, pending_uploads, timers,
                            dirty, evCount, burst, svars>>

\* if file_path in self.processing_files:
BUfTestProcessing ==
    /\ ev.pc = "B430"
    /\ ev' = [ev EXCEPT !.pc = IF processing_files[ev.path] # 0 THEN "B431" ELSE "B441"]
    /\ UNCHANGED <<processing_files, tasks>>
    /\ BEvUnchanged

\* old_future = self.processing_files[file_path]   (KeyError if the key is gone)
BUfReadProcessing ==
    /\ ev.pc = "B431"
    /\ ev' = IF processing_files[ev.path] # 0
             THEN [ev EXCEPT !.pc = "B432", !.old = processing_files[ev.path]]
             ELSE [ev EXCEPT !.pc = "crashed"]
    /\ UNCHANGED <<processing_files, tasks>>
    /\ BEvUnchanged

\* if not old_future.done(): old_future.cancel()
\* Future.cancel() cancels a future no worker has taken yet and does nothing
\* to a running or finished one.
BUfCancel ==
    /\ ev.pc = "B432"
    /\ tasks' = IF tasks[ev.old].st = "queued"
                THEN [tasks EXCEPT ![ev.old].st = "cancelled"]
                ELSE tasks
    /\ ev' = [ev EXCEPT !.pc = "B441", !.old = 0]
    /\ UNCHANGED processing_files
    /\ BEvUnchanged

\* future = self.executor.submit(self._upload_file, file_path)
BUfSubmit ==
    /\ ev.pc = "B441"
    /\ tasks' = Append(tasks, NewTask(ev.path))
    /\ ev' = [ev EXCEPT !.pc = "B442", !.old = Len(tasks) + 1]
    /\ UNCHANGED processing_files
    /\ BEvUnchanged

\* self.processing_files[file_path] = future; upload_file returns after
\* printing the concurrency line
BUfStore ==
    /\ ev.pc = "B442"
    /\ processing_files' = [processing_files EXCEPT ![ev.path] = ev.old]
    /\ ev' = [pc |-> "idle", path |-> None, old |-> 0, busy |-> FALSE]
    /\ UNCHANGED tasks
    /\ BEvUnchanged

BWkUnchanged == UNCHANGED <<debounce_timers, pending_uploads, timers,
                            ev, evCount, burst, svars>>

\* A free worker takes the oldest work item that is not cancelled and runs
\* _upload_file up to its first copy call: os.path.getsize raises when the
\* file has vanished, subprocess.run(mkdir_command, check=True) raises when
\* the remote mkdir fails; either exception leads to the finally block.
BStart(k) ==
    /\ inp.script = "base"
    /\ tasks[k].st = "queued"
    /\ \A j \in TaskIds : j < k => tasks[j].st # "queued"
    /\ Cardinality({j \in TaskIds : Executing(j)}) < inp.max_workers
    /\ \E exists \in BOOLEAN, mkdir_ok \in BOOLEAN :
          /\ tasks' = [tasks EXCEPT
                         ![k].st = IF exists /\ mkdir_ok THEN "bcp" ELSE "B495",
                         ![k].calls = IF exists /\ mkdir_ok THEN 1 ELSE 0]
          /\ dirty' = [dirty EXCEPT ![tasks[k].path] = FALSE]
    /\ UNCHANGED processing_files
    /\ BWkUnchanged

\* One attempt of the retry loop of _upload_file of sync_local_to_pod.py
\* ends: return on success; on CalledProcessError the next attempt while
\* attempt < max_retries - 1, else the failure is printed and the loop ends.
BRetryStep(task, success) ==
    IF success
    THEN [task EXCEPT !.st = "B495", !.ok = TRUE]
    ELSE IF task.attempt < max_retries - 1
         THEN [task EXCEPT !.st = "bcp", !.attempt = @ + 1, !.calls = @ + 1]
         ELSE [task EXCEPT !.st = "B495", !.failed = TRUE]

BCopyReturn(k) ==
    /\ tasks[k].st = "bcp"
    /\ \E success \in BOOLEAN :
          /\ tasks' = [tasks EXCEPT ![k] = BRetryStep(@, success)]
          /\ dirty' = IF tasks'[k].st = "bcp"
                      THEN [dirty EXCEPT ![tasks[k].path] = FALSE]
                      ELSE dirty
    /\ UNCHANGED processing_files
    /\ BWkUnchanged

\* finally: if file_path in self.processing_files:
BFinTestProcessing(k) ==
    /\ tasks[k].st = "B495"
    /\ tasks' = [tasks EXCEPT ![k] =
                    [NewTask(@.path) EXCEPT !.st =
                        IF processing_files[tasks[k].path] # 0 THEN "B496" ELSE "exit"]]
    /\ UNCHANGED <<processing_files, dirty>>
    /\ BWkUnchanged

\* del self.processing_files[file_path]: removes the key whichever future it
\* holds; a KeyError leaves the finally block
BFinDelProcessing(k) ==
    /\ tasks[k].st = "B496"
    /\ processing_files' = [processing_files EXCEPT ![tasks[k].path] = 0]
    /\ tasks' = [tasks EXCEPT ![k].st = "exit"]
    /\ UNCHANGED dirty
    /\ BWkUnchanged

\* one step of one thread of the watcher of sync_local_to_pod.py
BaseWatchStep ==
    \/ \E p \in Paths : Event(p)
    \/ BUfTestProcessing \/ BUfReadProcessing \/ BUfCancel \/ BUfSubmit \/ BUfStore
    \/ \E k \in TaskIds : BStart(k)
    \/ \E k \in TaskIds : BCopyReturn(k)
    \/ \E k \in TaskIds : BFinTestProcessing(k)
    \/ \E k \in TaskIds : BFinDelProcessing(k)
    \/ \E k \in TaskIds : Complete(k)

(***************************************************************************)
(* The local tree is a function from root-relative file path to the       *)
(* digest calculate_file_md5 returns for it (None when the file cannot be  *)
(* read).  os.walk lists a directory in file-system order; the model       *)
(* takes the sorted order.                                                 *)
(***************************************************************************)
\* os.path.relpath(os.path.join(root, name), local_path) for root = local_path/d
RelJoin(d, name) == IF d = <<>> THEN name ELSE d \o <<"/">> \o name

\* the part of f below directory d
Below(f, d) == SubSeq(f, Len(RelJoin(d, <<>>)) + 1, Len(f))

\* files: the names of the regular files of directory d
FilesIn(F, d) == {Basename(f) : f \in {g \in F : Dirname(g) = d}}

\* dirs: the names of the subdirectories of directory d
DirsIn(F, d) ==
    {FirstName(Below(f, d)) :
        f \in {g \in F : /\ d = <<>> \/ StartsWith(g, d \o <<"/">>)
                         /\ FirstName(Below(g, d)) # Below(g, d)}}

\* the loop `for root, dirs, files in os.walk(local_path)` of
\* upload_initial_files with its pruning dirs[:] = [d for d in dirs if not
\* d.startswith('.')]: the relative paths of the files the loop body sees
RECURSIVE WalkScan(_, _), WalkScanDirs(_, _, _)
WalkScan(F, d) ==
    LET files == Sorted(FilesIn(F, d))
        dirs == Sorted({n \in DirsIn(F, d) : ~Hidden(n)})
    IN [i \in 1..Len(files) |-> RelJoin(d, files[i])] \o WalkScanDirs(F, d, dirs)
WalkScanDirs(F, d, dirs) ==
    IF dirs = <<>> THEN <<>>
    ELSE WalkScan(F, RelJoin(d, Head(dirs))) \o WalkScanDirs(F, d, Tail(dirs))

\* ScanFile comparing no digests: a file the remote holds is never pending
ScanFile_AbsentOnly(acc, rel_path, local, remote_md5s, exclude_paths, remote_path) ==
    IF Hidden(Basename(rel_path)) THEN acc
    ELSE IF ShouldExclude(rel_path, exclude_paths) THEN acc
    ELSE IF rel_path \notin DOMAIN remote_md5s
         THEN [acc EXCEPT
                 !.directories_to_create =
                     @ \cup {Dirname(PathJoin(remote_path, rel_path))},
                 !.files_to_upload = Append(@, rel_path)]
         ELSE [acc EXCEPT !.files_skipped = @ + 1]

\* ScanFile consulting no inventory: every retained file is pending
ScanFile_Always(acc, rel_path, local, remote_md5s, exclude_paths, remote_path) ==
    IF Hidden(Basename(rel_path)) THEN acc
    ELSE IF ShouldExclude(rel_path, exclude_paths) THEN acc
    ELSE [acc EXCEPT
            !.directories_to_create =
                @ \cup {Dirname(PathJoin(remote_path, rel_path))},
            !.files_to_upload = Append(@, rel_path)]

\* One iteration of `for file in files` in upload_initial_files: skip hidden
\* and excluded files, compare the digests, collect the pending file and its
\* remote parent directory.
ScanFile_SkipUnreadable(acc, rel_path, local, remote_md5s, exclude_paths, remote_path) ==
    IF Hidden(Basename(rel_path)) THEN acc
    ELSE IF ShouldExclude(rel_path, exclude_paths) THEN acc
    ELSE LET local_md5 == local[rel_path]
             need_upload == /\ local_md5 # None
                            /\ ~(/\ rel_path \in DOMAIN remote_md5s
                                 /\ local_md5 = remote_md5s[rel_path])
         IN IF need_upload
            THEN [acc EXCEPT
                    !.directories_to_create =
                        @ \cup {Dirname(PathJoin(remote_path, rel_path))},
                    !.files_to_upload = Append(@, rel_path)]
            ELSE [acc EXCEPT !.files_skipped = @ + 1]

ScanFile(acc, rel_path, local, remote_md5s, exclude_paths, remote_path) ==
    IF Hidden(Basename(rel_path)) THEN acc
    ELSE IF ShouldExclude(rel_path, exclude_paths) THEN acc
    ELSE LET local_md5 == local[rel_path]
             need_upload == ~(/\ rel_path \in DOMAIN remote_md5s
                              /\ local_md5 = remote_md5s[rel_path])
         IN IF need_upload
            THEN [acc EXCEPT
                    !.directories_to_create =
                        @ \cup {Dirname(PathJoin(remote_path, rel_path))},
                    !.files_to_upload = Append(@, rel_path)]
            ELSE [acc EXCEPT !.files_skipped = @ + 1]

\* The loop body of upload_initial_files of sync_local_to_pod.py: excluded
\* files are skipped, the digests are compared, the pending file and its
\* remote parent directory are collected.  The name of the file is not tested.
ScanFileBase(acc, rel_path, local, remote_md5s, exclude_paths, remote_path) ==
    IF ShouldExclude(rel_path, exclude_paths) THEN acc
    ELSE LET local_md5 == local[rel_path]
             need_upload == ~(/\ rel_path \in DOMAIN remote_md5s
                              /\ local_md5 = remote_md5s[rel_path])
         IN IF need_upload
            THEN [acc EXCEPT
                    !.directories_to_create =
                        @ \cup {Dirname(PathJoin(remote_path, rel_path))},
                    !.files_to_upload = Append(@, rel_path)]
            ELSE [acc EXCEPT !.files_skipped = @ + 1]

\* get_remote_files_md5: the listing is a set of lines (md5, absolute path);
\* a line is kept when its path starts with remote_path and its relative
\* path matches no exclusion pattern.  A failed listing gives {}.
RemoteRel(line, remote_path) == LStripSlash(SubSeq(line.path, Len(remote_path) + 1,
                                                   Len(line.path)))

get_remote_files_md5_KeepOnError(listing, listing_ok, remote_path, exclude_paths) ==
    LET kept == {l \in listing : /\ StartsWith(l.path, remote_path)
                                 /\ ~ShouldExclude(RemoteRel(l, remote_path),
                                                   exclude_paths)}
        rels == {RemoteRel(l, remote_path) : l \in kept}
    IN [r \in rels |-> (CHOOSE l \in kept : RemoteRel(l, remote_path) = r).md5]

get_remote_files_md5(listing, listing_ok, remote_path, exclude_paths) ==
    LET kept == IF listing_ok
                THEN {l \in listing : /\ StartsWith(l.path, remote_path)
                                      /\ ~ShouldExclude(RemoteRel(l, remote_path),
                                                        exclude_paths)}
                ELSE {}
        rels == {RemoteRel(l, remote_path) : l \in kept}
    IN [r \in rels |-> (CHOOSE l \in kept : RemoteRel(l, remote_path) = r).md5]

\* get_remote_files_md5 of sync_local_to_pod.py: every line whose path starts
\* with remote_path is kept
get_remote_files_md5_base(listing, listing_ok, remote_path) ==
    LET kept == IF listing_ok
                THEN {l \in listing : StartsWith(l.path, remote_path)}
                ELSE {}
        rels == {RemoteRel(l, remote_path) : l \in kept}
    IN [r \in rels |-> (CHOOSE l \in kept : RemoteRel(l, remote_path) = r).md5]

\* the pruning loop over sorted(directories_to_create): a directory is
\* dropped when another one starts with it plus '/'
RECURSIVE SelectSeq2(_, _)
SelectSeq2(s, all) ==
    IF s = <<>> THEN <<>>
    ELSE LET dir_path == Head(s)
             is_redundant == \E i \in 1..Len(all) :
                                /\ all[i] # dir_path
                                /\ StartsWith(all[i], dir_path \o <<"/">>)
         IN (IF is_redundant THEN <<>> ELSE <<dir_path>>) \o SelectSeq2(Tail(s), all)

\* the pruning loop comparing plain string prefixes
RECURSIVE SelectSeq2_Prefix(_, _)
SelectSeq2_Prefix(s, all) ==
    IF s = <<>> THEN <<>>
    ELSE LET dir_path == Head(s)
             is_redundant == \E i \in 1..Len(all) :
                                /\ all[i] # dir_path
                                /\ StartsWith(all[i], dir_path)
         IN (IF is_redundant THEN <<>> ELSE <<dir_path>>)
                \o SelectSeq2_Prefix(Tail(s), all)

FilterDirs_StringPrefix(dirs_to_create) ==
    LET sorted_dirs == Sorted(dirs_to_create)
    IN SelectSeq2_Prefix(sorted_dirs, sorted_dirs)

\* FilterDirs without the pruning loop
FilterDirs_KeepAll(dirs_to_create) == Sorted(dirs_to_create)

FilterDirs(dirs_to_create) ==
    LET sorted_dirs == Sorted(dirs_to_create)
    IN SelectSeq2(sorted_dirs, sorted_dirs)

\* compress_dir: the walk prunes hidden directories and directories that
\* match an exclusion pattern, skips hidden and excluded files, and adds
\* every other file under its relative path.  The result is the set of
\* archive member names.
RECURSIVE WalkCompress(_, _, _), WalkCompressDirs(_, _, _, _)
WalkCompress(F, d, exclude_paths) ==
    LET files == {n \in FilesIn(F, d) :
                    ~Hidden(n) /\ ~ShouldExclude(RelJoin(d, n), exclude_paths)}
        dirs == {n \in DirsIn(F, d) :
                    ~Hidden(n) /\ ~ShouldExclude(RelJoin(d, n), exclude_paths)}
    IN {RelJoin(d, n) : n \in files} \cup WalkCompressDirs(F, d, Sorted(dirs), exclude_paths)
WalkCompressDirs(F, d, dirs, exclude_paths) ==
    IF dirs = <<>> THEN {}
    ELSE WalkCompress(F, RelJoin(d, Head(dirs)), exclude_paths)
            \cup WalkCompressDirs(F, d, Tail(dirs), exclude_paths)

\* compress_dir without the descent into subdirectories
compress_dir_TopOnly(local, exclude_paths) ==
    {n \in FilesIn(DOMAIN local, <<>>) : ~Hidden(n) /\ ~ShouldExclude(n, exclude_paths)}

compress_dir(local, exclude_paths) == WalkCompress(DOMAIN local, <<>>, exclude_paths)

\* create_compressed_archive of sync_local_to_pod.py: the walk prunes hidden
\* directories; a file is added when no part of file_path (local_path joined
\* with the relative path) starts with '.' and no exclusion pattern matches
create_compressed_archive(local, local_path, exclude_paths) ==
    LET seen == WalkScan(DOMAIN local, <<>>)
    IN {f \in {seen[i] : i \in 1..Len(seen)} :
          /\ ~\E part \in SplitParts(PathJoin(local_path, f)) : Hidden(part)
          /\ ~ShouldExclude(f, exclude_paths)}

(***************************************************************************)
(* Inputs of upload_initial_files.                                         *)
(***************************************************************************)
\* at most this many files of Universe are in the local tree
MaxFiles == 2
\* a large tree adds this many files z/f000, z/f001, ... that the remote lacks
FillerCount == 100

\* the literal of `if len(files_to_upload) > 100`
ArchiveThreshold == 100

\* remote_path of the configuration
RemotePath == <<"/", "r">>

File_abc == <<"a", "/", "b", "/", "c">>
File_abd == <<"a", "/", "b", "/", "d">>
File_ae == <<"a", "/", "e">>
File_ab_c == <<"a", "b", "/", "c">>
File_g == <<"g">>
File_hx == <<".", "h", "/", "x">>
File_ak == <<"a", "/", ".", "k">>

Universe == {File_abc, File_abd, File_ae, File_ab_c, File_g, File_hx, File_ak}

\* the files a large tree may hold besides its fillers
BigExtra == {File_g, File_abc}

\* the files of the large tree that is synchronised under an exclusion pattern
ExcludedExtra == {File_ae, File_ab_c}

\* exclude_paths of the configuration
ExcludeChoices == {<<>>, <<<<"a">>>>, <<<<"g">>>>}

\* how a file of the tree relates to the remote:
\*   new         readable, not on the remote
\*   same        readable, on the remote with the same digest
\*   diff        readable, on the remote with another digest
\*   unreadable  calculate_file_md5 returns None, on the remote
Kinds == {"new", "same", "diff", "unreadable"}

Digits == <<"0", "1", "2", "3", "4", "5", "6", "7", "8", "9">>

Filler(i) == <<"z", "/", "f", Digits[((i \div 100) % 10) + 1],
               Digits[((i \div 10) % 10) + 1], Digits[(i % 10) + 1]>>

Fillers(n) == {Filler(i) : i \in 0..(n - 1)}

LocalMd5(kind) == IF kind = "unreadable" THEN None ELSE "d1"

RemoteMd5(kind) == IF kind = "diff" THEN "d2" ELSE "d1"

\* load_config: the configuration file as a record, with the default of
\* compress_threshold set when the file does not hold the field
DefaultCompressThreshold == 50

load_config(config) ==
    IF "compress_threshold" \in DOMAIN config
    THEN config
    ELSE [k \in DOMAIN config \cup {"compress_threshold"} |->
            IF k = "compress_threshold" THEN DefaultCompressThreshold ELSE config[k]]

MakeInput(T, kind, n, exclude_paths, max_workers) ==
    [local |-> [f \in T \cup Fillers(n) |->
                  IF f \in T THEN LocalMd5(kind[f]) ELSE "d1"],
     listing |-> {[md5 |-> RemoteMd5(kind[f]), path |-> PathJoin(RemotePath, f)] :
                    f \in {g \in T : kind[g] # "new"}},
     exclude_paths |-> exclude_paths,
     max_workers |-> max_workers,
     compress_threshold |-> load_config(<<>>).compress_threshold,
     missing_fields |-> {},
     local_exists |-> TRUE,
     local_path |-> LocalPath,
     pod_running |-> TRUE,
     force_full_sync |-> FALSE,
     script |-> "optimized"]

\* A small tree is synchronised with max_workers = MaxWorkers, under every
\* choice of exclude_paths; a large tree with one worker and no exclusion,
\* and the large tree of ExcludedExtra under each exclusion pattern.
Inputs ==
    UNION {
      UNION {
        {MakeInput(T, kind, 0, ex, MaxWorkers) : ex \in ExcludeChoices}
          \cup (IF T \subseteq BigExtra /\ \A f \in T : kind[f] \in {"new", "same"}
                THEN {MakeInput(T, kind, FillerCount, <<>>, 1)}
                ELSE {})
          \cup (IF T = ExcludedExtra /\ \A f \in T : kind[f] = "new"
                THEN {MakeInput(T, kind, FillerCount, ex, 1) :
                        ex \in ExcludeChoices \ {<<>>}}
                ELSE {})
        : kind \in [T -> Kinds]}
      : T \in {X \in SUBSET Universe : Cardinality(X) <= MaxFiles}}

\* the small trees, synchronised by upload_initial_files of sync_local_to_pod.py
BaseInputs ==
    {[i EXCEPT !.script = "base"] :
        i \in {j \in Inputs : Cardinality(DOMAIN j.local) <= MaxFiles}}

\* the external copy of a filler always succeeds and a filler never
\* vanishes; the other files may do either
Flaky(rel_path) == rel_path \in Universe

NoInput == [local |-> <<>>, listing |-> {}, exclude_paths |-> <<>>, max_workers |-> 0,
            compress_threshold |-> load_config(<<>>).compress_threshold,
            missing_fields |-> {}, local_exists |-> TRUE, pod_running |-> TRUE,
            local_path |-> LocalPath,
            force_full_sync |-> FALSE,
            script |-> "optimized"]

SyncStart(input, pc) ==
    /\ spc = pc
    /\ inp = input
    /\ remote_files_md5 = <<>>
    /\ directories_to_create = {}
    /\ files_to_upload = <<>>
    /\ files_skipped = 0
    /\ walk = <<>>
    /\ archive = {}
    /\ filtered_dirs = <<>>
    /\ utasks = <<>>
    /\ completed_files = 0
    /\ successful_uploads = 0
    /\ failed_uploads = 0
    /\ fetches = 0
    /\ scans = 0
    /\ issued = {}
    /\ copies = {}

SyncInit == \E input \in Inputs : SyncStart(input, "L311")

\* subprocess.run(ensure_dir_cmd, check=True); a failure returns
EnsureRemoteRoot ==
    /\ spc = "L311"
    /\ UNCHANGED wvars
    /\ \E ok \in BOOLEAN : spc' = IF ok THEN "L324" ELSE "done"
    /\ issued' = issued \cup {"mkdir_root"}
    /\ UNCHANGED <<inp, plan, archive, filtered_dirs, pool, fetches, scans, copies>>

\* remote_files_md5 = get_remote_files_md5(...)
FetchRemote ==
    /\ spc = "L324"
    /\ UNCHANGED wvars
    /\ \E listing_ok \in BOOLEAN :
          /\ remote_files_md5' =
                 IF inp.script = "base"
                 THEN get_remote_files_md5_base(inp.listing, listing_ok, RemotePath)
                 ELSE get_remote_files_md5(inp.listing, listing_ok, RemotePath,
                                           inp.exclude_paths)
          \* history: the outcome of the listing call
          /\ issued' = issued \cup (IF listing_ok THEN {"listing"}
                                                  ELSE {"listing", "listing_failed"})
    /\ fetches' = fetches + 1
    /\ spc' = "L332"
    /\ UNCHANGED <<inp, directories_to_create, files_to_upload, files_skipped, walk,
                   archive, filtered_dirs, pool, scans, copies>>

\* for root, dirs, files in os.walk(local_path): the walk starts
StartScan ==
    /\ spc = "L332"
    /\ UNCHANGED wvars
    /\ walk' = WalkScan(DOMAIN inp.local, <<>>)
    /\ scans' = scans + 1
    /\ spc' = "L336"
    /\ UNCHANGED <<inp, remote_files_md5, directories_to_create, files_to_upload,
                   files_skipped, archive, filtered_dirs, pool, fetches, issued, copies>>

\* one iteration of `for file in files`
ScanStep ==
    /\ spc = "L336"
    /\ UNCHANGED wvars
    /\ walk # <<>>
    /\ LET old == [directories_to_create |-> directories_to_create,
                    files_to_upload |-> files_to_upload,
                    files_skipped |-> files_skipped]
           acc == IF inp.script = "base"
                  THEN ScanFileBase(old, Head(walk), inp.local, remote_files_md5,
                                    inp.exclude_paths, RemotePath)
                  ELSE ScanFile(old, Head(walk), inp.local, remote_files_md5,
                                inp.exclude_paths, RemotePath)
       IN /\ directories_to_create' = acc.directories_to_create
          /\ files_to_upload' = acc.files_to_upload
          /\ files_skipped' = acc.files_skipped
    /\ walk' = Tail(walk)
    /\ UNCHANGED <<spc, inp, remote_files_md5, archive, filtered_dirs, pool, fetches,
                   scans, issued, copies>>

\* UseArchive with the threshold itself included
UseArchive_AtLeast(pending) == pending >= ArchiveThreshold

\* if len(files_to_upload) > 100:
UseArchive(pending) == pending > ArchiveThreshold

\* the walk is over: the archive path or the incremental upload
ChooseStrategy ==
    /\ spc = "L336"
    /\ UNCHANGED wvars
    /\ walk = <<>>
    /\ spc' = IF UseArchive(Len(files_to_upload)) THEN "L384" ELSE "L440"
    /\ UNCHANGED <<inp, plan, archive, filtered_dirs, pool, fetches, scans, issued, copies>>

\* ArchiveStep without the fallback: a failed step ends the function
ArchiveStep_GiveUp(ok, next) == IF ok THEN next ELSE "done"

\* where a step of the archive path goes: on to the next step, or, when it
\* raises, through the except clauses to the incremental upload
ArchiveStep(ok, next) == IF ok THEN next ELSE "L440"

\* compress_dir(local_path, tar_path, exclude_paths, debug)
Compress ==
    /\ spc = "L384"
    /\ UNCHANGED wvars
    /\ \E ok \in BOOLEAN :
          /\ spc' = ArchiveStep(ok, "L398")
          /\ archive' = IF ~ok THEN archive
                        ELSE IF inp.script = "base"
                        THEN create_compressed_archive(inp.local, LocalPath,
                                                       inp.exclude_paths)
                        ELSE compress_dir(inp.local, inp.exclude_paths)
    /\ issued' = issued \cup {"compress"}
    /\ UNCHANGED <<inp, plan, filtered_dirs, pool, fetches, scans, copies>>

\* subprocess.run(upload_cmd, check=True)
ArchiveCopy ==
    /\ spc = "L398"
    /\ UNCHANGED wvars
    /\ \E ok \in BOOLEAN :
          /\ spc' = ArchiveStep(ok, "L409")
          /\ issued' = issued \cup {"archive_cp"}
                              \cup (IF ok THEN {} ELSE {"archive_cp_failed"})
    /\ UNCHANGED <<inp, plan, archive, filtered_dirs, pool, fetches, scans, copies>>

\* ExtractStep reporting the outcome whatever the commands returned
ExtractStep_AlwaysReports(ok) == {"extract", "bulk_success"}

\* what the extract step leaves in the history: "extracted" records that the
\* remote tree now holds the archive's content, "bulk_success" that the
\* archive path logged its success and returned
ExtractStep(ok) == {"extract"} \cup (IF ok THEN {"extracted", "bulk_success"} ELSE {})

\* subprocess.run(extract_cmd, check=True); the timing summary; return
Extract ==
    /\ spc = "L409"
    /\ UNCHANGED wvars
    /\ \E ok \in BOOLEAN :
          /\ spc' = ArchiveStep(ok, "done")
          /\ issued' = issued \cup ExtractStep(ok)
    /\ UNCHANGED <<inp, plan, archive, filtered_dirs, pool, fetches, scans, copies>>

(***************************************************************************)
(* main with force_full_sync: the whole tree is archived, copied and       *)
(* extracted over the cleared remote directory; no digest is compared.     *)
(***************************************************************************)
\* compress_dir(local_path, tar_path, exclude_paths, debug): an exception
\* leaves main
ForceCompress ==
    /\ spc = "F1119"
    /\ UNCHANGED wvars
    /\ \E ok \in BOOLEAN :
          /\ spc' = IF ok THEN "F1142" ELSE "aborted"
          /\ archive' = IF ok THEN compress_dir(inp.local, inp.exclude_paths) ELSE archive
    /\ issued' = issued \cup {"compress"}
    /\ UNCHANGED <<inp, plan, filtered_dirs, pool, fetches, scans, copies>>

\* os.system(cmd_cp): the exit status is dropped and the success is logged
ForceCopy ==
    /\ spc = "F1142"
    /\ UNCHANGED wvars
    /\ \E ok \in BOOLEAN :
          issued' = issued \cup {"archive_cp"}
                           \cup (IF ok THEN {} ELSE {"archive_cp_failed"})
    /\ spc' = "F1150"
    /\ UNCHANGED <<inp, plan, archive, filtered_dirs, pool, fetches, scans, copies>>

\* os.system(cmd_extract), which is rm -rf remote_path/* && tar -xzf ... &&
\* rm ...: the exit status is dropped and the success is logged.  The
\* directory is cleared when the rm runs; tar finds the archive only when
\* the copy put it there.
ForceExtract ==
    /\ spc = "F1150"
    /\ UNCHANGED wvars
    /\ \E cleared \in BOOLEAN, tar_ok \in BOOLEAN :
          issued' = issued \cup {"extract", "bulk_success"}
                           \cup (IF cleared THEN {"target_cleared"} ELSE {})
                           \cup (IF cleared /\ tar_ok /\ "archive_cp_failed" \notin issued
                                 THEN {"extracted"} ELSE {})
    /\ spc' = "done"
    /\ UNCHANGED <<inp, plan, archive, filtered_dirs, pool, fetches, scans, copies>>

force_full_sync == ForceCompress \/ ForceCopy \/ ForceExtract

\* lines 439-466: prune the directories and create them in one mkdir -p
\* (its failure is only logged)
MkdirBatch ==
    /\ spc = "L440"
    /\ UNCHANGED wvars
    /\ filtered_dirs' = IF directories_to_create # {}
                        THEN FilterDirs(directories_to_create)
                        ELSE filtered_dirs
    /\ issued' = IF filtered_dirs' # <<>> THEN issued \cup {"mkdir_batch"} ELSE issued
    /\ spc' = "L469"
    /\ UNCHANGED <<inp, plan, archive, pool, fetches, scans, copies>>

\* a work item of the pool; calls counts its copy calls and won records that
\* one of them succeeded
NewUTask(rel_path) == [rel |-> rel_path, st |-> "queued", attempt |-> 0, calls |-> 0,
                       tmp |-> 0, result |-> "none", won |-> FALSE]

\* the tasks handed to executor.submit, in order
Submitted(to_upload) == [i \in 1..Len(to_upload) |-> NewUTask(to_upload[i])]

\* if files_to_upload: ... future_to_file = {executor.submit(...): ...}
SubmitAll ==
    /\ spc = "L469"
    /\ UNCHANGED wvars
    /\ IF files_to_upload # <<>>
       THEN /\ utasks' = Submitted(files_to_upload)
            /\ spc' = "L524"
       ELSE /\ utasks' = utasks
            /\ spc' = "done"
    /\ UNCHANGED <<inp, plan, archive, filtered_dirs, completed_files,
                   successful_uploads, failed_uploads, fetches, scans, issued, copies>>

UTaskIds == 1..Len(utasks)

URunning(i) == utasks[i].st \notin {"queued", "done"}

\* UStart with a thread for every item
UStart_AnyNumber(i) ==
    /\ spc = "L524"
    /\ UNCHANGED wvars
    /\ utasks[i].st = "queued"
    /\ \A j \in UTaskIds : j < i => utasks[j].st # "queued"
    /\ \E exists \in {TRUE} \cup {~Flaky(utasks[i].rel)} :
          /\ utasks' = [utasks EXCEPT ![i] =
                           IF exists
                           THEN [@ EXCEPT !.st = "cp", !.calls = 1]
                           ELSE [@ EXCEPT !.st = "done", !.result = "raised"]]
          /\ copies' = IF exists THEN copies \cup {utasks[i].rel} ELSE copies
    /\ UNCHANGED <<spc, inp, plan, archive, filtered_dirs, completed_files,
                   successful_uploads, failed_uploads, fetches, scans, issued>>

\* A free worker takes the oldest queued item and runs upload_single_file up
\* to its first copy call; os.path.getsize raises when the file has vanished
\* and the exception ends the task.
UStart(i) ==
    /\ spc = "L524"
    /\ UNCHANGED wvars
    /\ utasks[i].st = "queued"
    /\ \A j \in UTaskIds : j < i => utasks[j].st # "queued"
    /\ Cardinality({j \in UTaskIds : URunning(j)}) < inp.max_workers
    /\ \E exists \in {TRUE} \cup {~Flaky(utasks[i].rel)} :
          /\ utasks' = [utasks EXCEPT ![i] =
                           IF exists
                           THEN [@ EXCEPT !.st = "cp", !.calls = 1]
                           ELSE [@ EXCEPT !.st = "done", !.result = "raised"]]
          /\ copies' = IF exists THEN copies \cup {utasks[i].rel} ELSE copies
    /\ UNCHANGED <<spc, inp, plan, archive, filtered_dirs, completed_files,
                   successful_uploads, failed_uploads, fetches, scans, issued>>

\* URetryStep reporting a success on the last attempt as a failure
URetryStep_LastFails(task, success, counter) ==
    IF success /\ task.attempt < max_retries - 1
    THEN [task EXCEPT !.st = "L493", !.tmp = counter, !.won = TRUE]
    ELSE IF task.attempt < max_retries - 1
         THEN [task EXCEPT !.st = "cp", !.attempt = @ + 1, !.calls = @ + 1]
         ELSE [task EXCEPT !.st = "L510", !.tmp = counter, !.won = success]

\* One attempt of the retry loop of upload_single_file ends: on success, and
\* on the last failure, the task goes on to `completed_files += 1`, whose
\* read of the counter is taken here; otherwise the next attempt starts.
URetryStep(task, success, counter) ==
    IF success
    THEN [task EXCEPT !.st = "L493", !.tmp = counter, !.won = TRUE]
    ELSE IF task.attempt < max_retries - 1
         THEN [task EXCEPT !.st = "cp", !.attempt = @ + 1, !.calls = @ + 1]
         ELSE [task EXCEPT !.st = "L510", !.tmp = counter]

UCopyReturn(i) ==
    /\ spc = "L524"
    /\ UNCHANGED wvars
    /\ utasks[i].st = "cp"
    /\ \E success \in {TRUE} \cup {~Flaky(utasks[i].rel)} :
          utasks' = [utasks EXCEPT ![i] = URetryStep(@, success, completed_files)]
    /\ UNCHANGED <<spc, inp, plan, archive, filtered_dirs, completed_files,
                   successful_uploads, failed_uploads, fetches, scans, issued, copies>>

\* UFinish cancelling the queued futures when the task returns False
UFinish_CancelRest(i) ==
    /\ spc = "L524"
    /\ UNCHANGED wvars
    /\ utasks[i].st \in {"L493", "L510"}
    /\ completed_files' = utasks[i].tmp + 1
    /\ utasks' = [j \in UTaskIds |->
                     IF j = i
                     THEN [NewUTask(utasks[i].rel) EXCEPT
                             !.st = "done",
                             !.won = utasks[i].won,
                             !.result = IF utasks[i].st = "L493" THEN "True" ELSE "False"]
                     ELSE IF utasks[i].st = "L510" /\ utasks[j].st = "queued"
                          THEN [utasks[j] EXCEPT !.st = "done", !.result = "cancelled"]
                          ELSE utasks[j]]
    /\ UNCHANGED <<spc, inp, plan, archive, filtered_dirs,
                   successful_uploads, failed_uploads, fetches, scans, issued, copies>>

\* the store of `completed_files += 1`, then return True or return False
UFinish(i) ==
    /\ spc = "L524"
    /\ UNCHANGED wvars
    /\ utasks[i].st \in {"L493", "L510"}
    /\ completed_files' = utasks[i].tmp + 1
    /\ utasks' = [utasks EXCEPT ![i] =
                     [NewUTask(@.rel) EXCEPT
                        !.st = "done",
                        !.won = utasks[i].won,
                        !.result = IF utasks[i].st = "L493" THEN "True" ELSE "False"]]
    /\ UNCHANGED <<spc, inp, plan, archive, filtered_dirs,
                   successful_uploads, failed_uploads, fetches, scans, issued, copies>>

\* CountResults leaving the futures that hold an exception out of the count
CountResults_SkipRaised ==
    /\ spc = "L524"
    /\ UNCHANGED wvars
    /\ \A i \in UTaskIds : utasks[i].st = "done"
    /\ successful_uploads' = Cardinality({i \in UTaskIds : utasks[i].result = "True"})
    /\ failed_uploads' = Cardinality({i \in UTaskIds : utasks[i].result = "False"})
    /\ spc' = "done"
    /\ UNCHANGED <<inp, plan, archive, filtered_dirs, utasks, completed_files,
                   fetches, scans, issued, copies>>

\* the loop `for future in future_to_file` over the finished futures: a True
\* result counts as successful, a False result or an exception as failed
CountResults ==
    /\ spc = "L524"
    /\ UNCHANGED wvars
    /\ \A i \in UTaskIds : utasks[i].st = "done"
    /\ successful_uploads' = Cardinality({i \in UTaskIds : utasks[i].result = "True"})
    /\ failed_uploads' = Cardinality({i \in UTaskIds : utasks[i].result # "True"})
    /\ spc' = "done"
    /\ UNCHANGED <<inp, plan, archive, filtered_dirs, utasks, completed_files,
                   fetches, scans, issued, copies>>

upload_initial_files ==
    \/ EnsureRemoteRoot \/ FetchRemote \/ StartScan \/ ScanStep \/ ChooseStrategy
    \/ Compress \/ ArchiveCopy \/ Extract
    \/ MkdirBatch \/ SubmitAll
    \/ \E i \in UTaskIds : UStart(i)
    \/ \E i \in UTaskIds : UCopyReturn(i)
    \/ \E i \in UTaskIds : UFinish(i)
    \/ CountResults

(***************************************************************************)
(* Specifications.                                                         *)
(***************************************************************************)
\* the watch phase alone: main is past upload_initial_files
WatchSpecInit ==
    /\ WatchInit
    /\ \E ex \in ExcludeChoices, w \in 1..MaxWorkers :
          SyncStart([NoInput EXCEPT !.exclude_paths = ex, !.max_workers = w], "off")
WatchSpec == WatchSpecInit /\ [][WatchStep]_vars

\* the watch phase with every kind of notification delivered to the handler
NotifyStep == WatchStep \/ \E e \in OtherEvents : Notify(e)
NotifySpec == WatchSpecInit /\ [][NotifyStep]_vars

\* the watch phase of sync_local_to_pod.py alone
BaseWatchInit ==
    /\ WatchInit
    /\ \E ex \in ExcludeChoices, w \in 1..MaxWorkers :
          SyncStart([NoInput EXCEPT !.exclude_paths = ex, !.max_workers = w,
                                    !.script = "base"], "off")
BaseWatchSpec == BaseWatchInit /\ [][BaseWatchStep]_vars

\* the watch phase of either script with the root given in several ways: an
\* absolute path, a path below a dot-directory, a path relative to '.'
Roots == {LocalPath, <<"/", ".", "c", "/", "w">>, <<".", "/", "w">>}
RootInit ==
    /\ WatchInit
    /\ \E root \in Roots, ex \in ExcludeChoices, script \in {"optimized", "base"} :
          SyncStart([NoInput EXCEPT !.local_path = root, !.exclude_paths = ex,
                                    !.max_workers = MaxWorkers, !.script = script],
                    "off")
RootSpec == RootInit /\ [][WatchStep \/ BaseWatchStep]_vars

\* the watch phase of either script
WatchersSpec == (WatchSpecInit \/ BaseWatchInit) /\ [][WatchStep \/ BaseWatchStep]_vars

\* upload_initial_files alone: no notification is delivered
SyncSpecInit == SyncInit /\ WatchInit
SyncSpec == SyncSpecInit /\ [][upload_initial_files]_vars

\* upload_initial_files of sync_local_to_pod.py on the small trees: the
\* incremental path (no small tree reaches the archive threshold)
BaseSyncInit == (\E input \in BaseInputs : SyncStart(input, "L311")) /\ WatchInit
upload_initial_files_base ==
    \/ EnsureRemoteRoot \/ FetchRemote \/ StartScan \/ ScanStep \/ ChooseStrategy
    \/ MkdirBatch \/ SubmitAll
    \/ \E i \in UTaskIds : UStart(i)
    \/ \E i \in UTaskIds : UCopyReturn(i)
    \/ \E i \in UTaskIds : UFinish(i)
    \/ CountResults
BaseSyncSpec == BaseSyncInit /\ [][upload_initial_files_base]_vars

\* upload_initial_files of sync_local_to_pod.py on large trees the remote
\* lacks: the archive path and its fallback
BaseBigInputs ==
    {[MakeInput(T, [f \in T |-> "new"], FillerCount, <<>>, 1) EXCEPT !.script = "base"] :
        T \in {{File_g}, {File_ak}, {File_g, File_ak}}}
BaseArchiveInit == (\E input \in BaseBigInputs : SyncStart(input, "L311")) /\ WatchInit
BaseArchiveSpec == BaseArchiveInit /\ [][upload_initial_files]_vars

(***************************************************************************)
(* main of sync_local_to_pod_optimized.py up to the synchronisation: the   *)
(* required fields of the configuration, the local root and the running    *)
(* pod are checked, each failure ends the process with sys.exit.           *)
(***************************************************************************)
required_fields == {"cluster", "namespace", "pod_label", "remote_path", "local_path"}

\* the runs main is started on: every tree with a complete configuration,
\* with and without --force on the small trees, and one small tree under
\* each startup failure
SmallInputs == {j \in Inputs : Cardinality(DOMAIN j.local) <= MaxFiles}

OneTree == CHOOSE j \in SmallInputs :
              DOMAIN j.local = {File_ae, File_ab_c} /\ j.listing = {}
                                                   /\ j.exclude_paths = <<>>

StartInputs ==
    Inputs
      \cup {[j EXCEPT !.force_full_sync = TRUE] : j \in SmallInputs}
      \cup {[OneTree EXCEPT !.missing_fields = {f}, !.force_full_sync = force] :
               f \in required_fields, force \in BOOLEAN}
      \cup {[OneTree EXCEPT !.local_exists = FALSE, !.force_full_sync = force] :
               force \in BOOLEAN}
      \cup {[OneTree EXCEPT !.pod_running = FALSE, !.force_full_sync = force] :
               force \in BOOLEAN}

\* main_startup going on without a running pod
StartupPasses_NoPodCheck(input) ==
    /\ input.missing_fields = {}
    /\ input.local_exists

\* the checks of main before the synchronisation: no required field is
\* missing, the local path exists, select_running_pod_by_label returns a pod
StartupPasses(input) ==
    /\ input.missing_fields = {}
    /\ input.local_exists
    /\ input.pod_running

main_startup ==
    /\ spc = "M1041"
    /\ spc' = IF ~StartupPasses(inp) THEN "exited"
              ELSE IF inp.force_full_sync THEN "F1119" ELSE "L311"
    /\ UNCHANGED <<inp, plan, archive, filtered_dirs, pool, fetches, scans, issued,
                   copies>>
    /\ UNCHANGED wvars

StartInit ==
    /\ \E input \in StartInputs : SyncStart(input, "M1041")
    /\ WatchInit

\* main with force_full_sync alone, on the small trees
ForceInit ==
    /\ \E input \in {j \in Inputs : Cardinality(DOMAIN j.local) <= MaxFiles} :
          SyncStart(input, "F1119")
    /\ WatchInit
ForceSpec == ForceInit /\ [][force_full_sync]_vars

\* main: upload_initial_files has returned and its locals are gone; the
\* executor, the handler (with main's exclude_paths) and the observer of the
\* watch phase are created
main ==
    /\ spc = "done"
    /\ spc' = "off"
    /\ inp' = [NoInput EXCEPT !.exclude_paths = inp.exclude_paths,
                              !.max_workers = inp.max_workers,
                              !.local_path = inp.local_path]
    /\ remote_files_md5' = <<>>
    /\ directories_to_create' = {}
    /\ files_to_upload' = <<>>
    /\ files_skipped' = 0
    /\ walk' = <<>>
    /\ archive' = {}
    /\ filtered_dirs' = <<>>
    /\ utasks' = <<>>
    /\ completed_files' = 0
    /\ successful_uploads' = 0
    /\ failed_uploads' = 0
    /\ fetches' = 0
    /\ scans' = 0
    /\ issued' = {}
    /\ copies' = {}
    /\ UNCHANGED wvars

\* The user saves file p while upload_initial_files runs or has just returned:
\* the observer is not started yet, so no notification is delivered.  The
\* step is taken once the scan has read the file and no copy call of the
\* reconciliation will read it again (the file is not pending, or
\* upload_initial_files has returned).
Modify(p) ==
    /\ spc \notin {"off", "exited", "M1041"}
    /\ SrcRel(p) \in DOMAIN inp.local
    /\ Accepted(FileEvent(p), LocalPath, inp.exclude_paths)
    /\ scans = 1 /\ walk = <<>>
    /\ spc = "done" \/ \A i \in 1..Len(files_to_upload) : files_to_upload[i] # SrcRel(p)
    /\ ~dirty[p]
    /\ dirty' = [dirty EXCEPT ![p] = TRUE]
    /\ UNCHANGED <<debounce_timers, processing_files, pending_uploads, timers, tasks,
                   ev, evCount, burst, svars>>

\* the small trees that hold the two watched files, synchronised and then
\* watched, with the files changing in between
HandoffInit ==
    /\ \E input \in {j \in SmallInputs : /\ DOMAIN j.local # {}
                                          /\ DOMAIN j.local \subseteq {SrcRel(p) : p \in Paths}} :
          SyncStart(input, "L311")
    /\ WatchInit
HandoffStep ==
    \/ upload_initial_files_base
    \/ \E p \in Paths : Modify(p)
    \/ main
    \/ WatchStep
HandoffSpec == HandoffInit /\ [][HandoffStep]_vars

\* the whole program: the initial synchronisation, then the watch phase
Init == StartInit
Next == main_startup \/ upload_initial_files \/ force_full_sync \/ main \/ WatchStep
Spec == Init /\ [][Next]_vars

(***************************************************************************)
(* The watch phase under the scheduling the threads are given: the         *)
(* watchdog thread goes on with the handler it is in, a started timer that *)
(* is not cancelled fires and its callback runs on, and the pool runs its  *)
(* work items to the end.  No notification is ever owed.                   *)
(***************************************************************************)
UploadFileSteps ==
    \/ UfTestTimer \/ UfReadTimer \/ UfCancel \/ UfDelTimer
    \/ UfTestProcessing \/ UfReadProcessing \/ UfTestDone \/ UfSetPending \/ UfArm

TimerSteps ==
    \E t \in TimerIds :
        \/ Fire(t) \/ DuTestTimer(t) \/ DuDelTimer(t) \/ DuTestProcessing(t)
        \/ DuReadProcessing(t) \/ DuTestDone(t) \/ DuSetPending(t)
        \/ DuSubmit(t) \/ DuStore(t)

WorkerSteps ==
    \E k \in TaskIds :
        \/ Start(k) \/ CopyReturn(k) \/ FinTestProcessing(k) \/ FinDelProcessing(k)
        \/ FinTestPending(k) \/ FinDelPending(k) \/ FinArm(k) \/ Complete(k)

WatchLive ==
    /\ WatchSpec
    /\ WF_vars(UploadFileSteps)
    /\ WF_vars(TimerSteps)
    /\ WF_vars(WorkerSteps)

(***************************************************************************)
(* The incremental path of upload_initial_files under the scheduling its   *)
(* threads are given: a worker of the pool that has a work item runs it    *)
(* on, every external copy call returns, and the main thread, waiting in   *)
(* future.result(), goes on once the futures are done.  The steps are      *)
(* those of upload_initial_files_base, which the two scripts share.        *)
(***************************************************************************)
PoolSteps ==
    \E i \in UTaskIds : UStart(i) \/ UCopyReturn(i) \/ UFinish(i)

\* the small trees: upload_initial_files takes the incremental path
IncrementalInit ==
    /\ \E input \in {j \in Inputs : Cardinality(DOMAIN j.local) <= MaxFiles} :
          SyncStart(input, "L311")
    /\ WatchInit

SyncLive ==
    /\ IncrementalInit
    /\ [][upload_initial_files_base]_vars
    /\ WF_vars(PoolSteps)
    /\ WF_vars(CountResults)

(***************************************************************************)
(* Properties of the watch phase.                                          *)
(***************************************************************************)
\* the _upload_file tasks ever submitted for path p
TasksOf(p) == {k \in TaskIds : tasks[k].path = p}

\* C1: for every path and every interleaving of upload_file, _debounced_upload
\* and _upload_file, at most one _upload_file task for that path is executing
\* at any time.
C1_OneUploadPerPath ==
    \A j, k \in TaskIds :
        (j # k /\ tasks[j].path = tasks[k].path) => ~(Executing(j) /\ Executing(k))

\* C2: when every timer fires, every work item runs and every copy call
\* returns, each accepted event on a path is followed by an _upload_file run
\* for that path that starts its copy (dirty[p] is set by the event and reset
\* by the start of a copy): no accepted event is lost.
C2_NoEventLost == \A p \in Paths : dirty[p] ~> ~dirty[p]

\* C3: when k >= 1 accepted events for an idle path arrive within one
\* debounce window (burst[p]: the first found the path idle, each later one
\* arrived while the timer armed by the previous one had not fired) and none
\* afterwards, exactly one _upload_file task for the path is submitted in
\* total: never more than one, and one once the threads have come to rest.
WatchAtRest ==
    /\ ev.pc \in {"idle", "crashed"}
    /\ \A t \in TimerIds : ~IsAlive(t)
    /\ \A k \in TaskIds : Done(k)

C3_BurstSubmitsOnce ==
    \A p \in Paths :
        (burst[p] /\ evCount[p] >= 1) =>
            /\ Cardinality(TasksOf(p)) <= 1
            /\ WatchAtRest => Cardinality(TasksOf(p)) = 1

(***************************************************************************)
(* Properties of upload_initial_files.                                     *)
(***************************************************************************)
Range(s) == {s[i] : i \in 1..Len(s)}

\* a relative path with a component that starts with '.'
HiddenPath(f) ==
    \/ Head(f) = "."
    \/ \E i \in 1..(Len(f) - 1) : f[i] = "/" /\ f[i + 1] = "."

\* the local files the reconciliation retains: not hidden, not excluded
Retained == {f \in DOMAIN inp.local : ~HiddenPath(f) /\ ~ShouldExclude(f, inp.exclude_paths)}

\* a retained file the remote inventory lacks or holds with another digest
Changed(f) == f \notin DOMAIN remote_files_md5 \/ remote_files_md5[f] # inp.local[f]

\* the walk over the local tree is over
ScanDone == scans = 1 /\ walk = <<>>

\* C4: a retained local file is in files_to_upload if and only if its relative
\* path is absent from the remote inventory or present with another digest,
\* otherwise it is counted in files_skipped; every retained file lands in
\* exactly one of the two, so files_skipped + len(files_to_upload) is the
\* number of retained files.
C4_PendingIffChanged ==
    ScanDone =>
        /\ \A f \in Retained : (f \in Range(files_to_upload)) <=> Changed(f)
        /\ Range(files_to_upload) \subseteq Retained
        /\ Cardinality(Range(files_to_upload)) = Len(files_to_upload)
        /\ files_skipped = Cardinality(Retained \ Range(files_to_upload))
        /\ files_skipped + Len(files_to_upload) = Cardinality(Retained)

C4_Witness ==
    /\ ScanDone
    /\ files_skipped >= 1
    /\ \E f \in Range(files_to_upload) : f \in DOMAIN remote_files_md5

\* the remote inventory maps exactly the retained paths to the local digests
RemoteEqualsLocal ==
    /\ fetches = 1
    /\ DOMAIN remote_files_md5 = Retained
    /\ \A f \in Retained : remote_files_md5[f] = inp.local[f]

\* C5: against a remote inventory that maps exactly the tree's retained paths
\* to the tree's digests the pending set is empty (files_to_upload and
\* directories_to_create), and no copy, no directory-creation batch and no
\* archive transfer is issued.
C5_EqualRemoteEmptyPlan ==
    RemoteEqualsLocal =>
        /\ files_to_upload = <<>>
        /\ directories_to_create = {}
        /\ filtered_dirs = <<>>
        /\ utasks = <<>>
        /\ copies = {}
        /\ issued \cap {"mkdir_batch", "compress", "archive_cp", "extract"} = {}

C5_Witness ==
    /\ RemoteEqualsLocal
    /\ spc = "done"
    /\ Cardinality(Retained) = MaxFiles
    /\ files_skipped = MaxFiles

ArchiveFailed ==
    /\ "compress" \in issued
    /\ "extracted" \notin issued
    /\ spc \notin {"L384", "L398", "L409"}

\* C7: when a step of the archive path fails (creation, copy or extraction),
\* the incremental upload runs on exactly the files_to_upload computed before
\* the attempt: the tree is not scanned again and the inventory is not
\* fetched again.
C7_FallbackSamePlan ==
    ArchiveFailed =>
        /\ scans = 1
        /\ fetches = 1
        /\ spc \in {"L440", "L469", "L524", "done"}
        /\ Range(files_to_upload) = {f \in Retained : Changed(f)}
        /\ Cardinality(Range(files_to_upload)) = Len(files_to_upload)
        /\ (spc \in {"L524", "done"}) =>
              /\ Len(utasks) = Len(files_to_upload)
              /\ \A i \in UTaskIds : utasks[i].rel = files_to_upload[i]
        /\ (spc = "done") =>
              /\ \A i \in UTaskIds : utasks[i].st = "done"
              /\ successful_uploads + failed_uploads = Len(files_to_upload)

C7_Witness ==
    /\ ArchiveFailed
    /\ "extract" \in issued
    /\ spc = "done"
    /\ Len(files_to_upload) > 100
    /\ successful_uploads = Len(files_to_upload)

\* C8: every per-file upload task (upload_single_file and _upload_file) calls
\* the external copy at most 3 times, makes no call after the first
\* successful one, and declares the file failed only after exactly 3 failed
\* calls.
\* (A task that os.path.getsize ends with an exception before its first copy
\* call makes no call and reports nothing itself: its result is "raised".)
C8_AtMostThreeCopies ==
    /\ \A k \in TaskIds :
          LET t == tasks[k]
          IN /\ t.calls <= 3
             /\ (t.st = "cp") => (~t.ok /\ ~t.failed /\ t.calls = t.attempt + 1)
             /\ t.ok => (~t.failed /\ t.st # "cp" /\ t.calls = t.attempt + 1)
             /\ t.failed => (~t.ok /\ t.calls = 3 /\ t.attempt = 2)
    /\ \A i \in UTaskIds :
          LET u == utasks[i]
          IN /\ u.calls <= 3
             /\ (u.st = "cp") => (~u.won /\ u.calls = u.attempt + 1)
             /\ (u.st = "L493") => (u.won /\ u.calls = u.attempt + 1)
             /\ (u.st = "L510") => (~u.won /\ u.calls = 3 /\ u.attempt = 2)
             /\ (u.result = "False") => ~u.won

C8_Witness == \E k \in TaskIds : tasks[k].failed /\ tasks[k].calls = 3

\* C9: an upload_single_file task whose copy fails on the first j attempts
\* (j in {0,1,2}) and succeeds on attempt j+1 is a success with retry count j:
\* it returns True and is counted in successful_uploads, never as a failure.
C9_SuccessAfterRetries ==
    /\ \A i \in UTaskIds :
          LET u == utasks[i]
          IN /\ (u.st = "L493") => (u.attempt \in 0..2 /\ u.attempt = u.calls - 1)
             /\ u.won => (u.st = "L493" \/ (u.st = "done" /\ u.result = "True"))
    /\ (spc = "done" /\ utasks # <<>>) =>
          /\ successful_uploads = Cardinality({i \in UTaskIds : utasks[i].won})
          /\ failed_uploads = Cardinality({i \in UTaskIds : ~utasks[i].won})

C9_Witness == \E i \in UTaskIds : utasks[i].st = "L493" /\ utasks[i].attempt = 2

\* the remote parent directory of a pending file
ParentDir(f) == Dirname(PathJoin(RemotePath, f))

\* C10: filtered_dirs, the directories of the batch mkdir, holds only parent
\* directories of pending files, no directory that is a strict path-prefix
\* ancestor of another one in it, and each directory once; for the pending
\* files a/b/c and a/b/d it is exactly <remote_path>/a/b.
C10_FilteredDirs ==
    /\ \A i \in 1..Len(filtered_dirs) :
          filtered_dirs[i] \in {ParentDir(f) : f \in Range(files_to_upload)}
    /\ \A i, j \in 1..Len(filtered_dirs) :
          (i # j) => /\ filtered_dirs[i] # filtered_dirs[j]
                     /\ ~StartsWith(filtered_dirs[j], filtered_dirs[i] \o <<"/">>)
    /\ (spc \in {"L469", "L524"} /\ Range(files_to_upload) = {File_abc, File_abd}) =>
          filtered_dirs = <<RemotePath \o <<"/", "a", "/", "b">>>>

C10_Witness ==
    /\ "mkdir_batch" \in issued
    /\ Range(files_to_upload) = {File_abc, File_abd}
    /\ filtered_dirs = <<RemotePath \o <<"/", "a", "/", "b">>>>

(***************************************************************************)
(* Exclusion and retention.                                                *)
(***************************************************************************)
\* r equals the pattern P or lies under P + '/'
UnderPattern(r, P) ==
    \/ r = P
    \/ /\ Len(r) > Len(P)
       /\ SubSeq(r, 1, Len(P)) = P
       /\ r[Len(P) + 1] = "/"

ExcludedBy(r, exclude_paths) ==
    \E i \in 1..Len(exclude_paths) : UnderPattern(r, exclude_paths[i])

\* the path of a line of the remote listing, relative to remote_path
ListedRel(line) == SubSeq(line.path, Len(RemotePath) + 2, Len(line.path))

\* C11: a relative path r that equals an exclusion pattern P or lies under
\* P + '/' is never placed in files_to_upload by the scan, never added to the
\* archive by compress_dir, never kept in the mapping get_remote_files_md5
\* returns, and an event for it never reaches upload_file; a path that only
\* shares a string prefix with P (P = a, r = ab/c) is excluded by none of the
\* four, which decide exclusion identically.
C11_ExclusionSymmetry ==
    LET ex == inp.exclude_paths
    IN /\ \A f \in Range(files_to_upload) : ~ExcludedBy(f, ex)
       /\ ScanDone =>
             \A f \in DOMAIN inp.local :
                 (~HiddenPath(f) /\ ~ExcludedBy(f, ex) /\ Changed(f))
                     => f \in Range(files_to_upload)
       /\ \A m \in archive : ~ExcludedBy(m, ex)
       /\ (archive # {}) =>
             \A f \in DOMAIN inp.local :
                 (~HiddenPath(f) /\ ~ExcludedBy(f, ex)) => f \in archive
       /\ \A r \in DOMAIN remote_files_md5 : ~ExcludedBy(r, ex)
       /\ (DOMAIN remote_files_md5 # {}) =>
             \A l \in inp.listing :
                 ~ExcludedBy(ListedRel(l), ex) => ListedRel(l) \in DOMAIN remote_files_md5
       /\ (ev.pc # "idle") => ~ExcludedBy(SrcRel(ev.path), ex)
       /\ \A p \in Paths :
             Accepted(FileEvent(p), LocalPath, ex) <=> ~ExcludedBy(SrcRel(p), ex)

C11_Witness ==
    /\ inp.exclude_paths = <<<<"a">>>>
    /\ File_ae \in DOMAIN inp.local
    /\ File_ab_c \in Range(files_to_upload)
    /\ File_ab_c \in archive
    /\ File_ae \notin archive

\* the files the scan is to retain: no directory component and no file name
\* that begins with a dot, no exclusion pattern matched
ToRetain == {f \in DOMAIN inp.local : ~HiddenPath(f) /\ ~ExcludedBy(f, inp.exclude_paths)}

\* C12: the local scan of upload_initial_files retains a file if and only if
\* no directory component of its root-relative path begins with a dot, its own
\* name does not begin with a dot, and it matches no exclusion pattern; every
\* such file is visited exactly once per scan (it is pending once or counted
\* once as skipped).
C12_ScanRetains ==
    ScanDone =>
        /\ Range(files_to_upload) \subseteq ToRetain
        /\ \A f \in ToRetain : Changed(f) => f \in Range(files_to_upload)
        /\ Cardinality(Range(files_to_upload)) = Len(files_to_upload)
        /\ Len(files_to_upload) + files_skipped = Cardinality(ToRetain)

Unreadable == {f \in Retained : inp.local[f] = None}

\* C14: a retained local file whose digest cannot be computed is in
\* files_to_upload once the scan is over, whether or not the remote inventory
\* has an entry for its path; it is not counted in files_skipped and it stays
\* in the plan for the rest of the run.
C14_UnreadableIsPending ==
    ScanDone =>
        /\ \A f \in Unreadable :
              Cardinality({i \in 1..Len(files_to_upload) : files_to_upload[i] = f}) = 1
        /\ files_skipped <= Cardinality(Retained \ Unreadable)

C14_Witness ==
    /\ ScanDone
    /\ inp.script = "optimized"
    /\ \E f \in Unreadable : f \in DOMAIN remote_files_md5
    /\ files_skipped >= 1
    /\ spc = "done"

(***************************************************************************)
(* The incremental executor of upload_initial_files.                       *)
(***************************************************************************)
\* the pool loop has collected every future
PoolDrained == spc = "done" /\ utasks # <<>>

\* the tasks that ended for good without a successful copy
FailedTasks == {i \in UTaskIds : utasks[i].result \in {"False", "raised"}}

\* C15 as stated: once the pool has drained, every file of files_to_upload
\* has had its copy attempted at least once.
C15_EveryCopyAttempted ==
    PoolDrained => Range(files_to_upload) \subseteq copies

\* C15, amended: the permanent failure of one task neither cancels nor
\* prevents any other submitted task: once the pool has drained there is one
\* task per file of files_to_upload, each has run to its end, and the copy of
\* its file has been attempted unless os.path.getsize raised in that very
\* task.
C15_FailureDoesNotStopOthers ==
    PoolDrained =>
        /\ Len(utasks) = Len(files_to_upload)
        /\ \A i \in UTaskIds :
              /\ utasks[i].rel = files_to_upload[i]
              /\ utasks[i].st = "done"
              /\ utasks[i].result \in {"True", "False", "raised"}
              /\ utasks[i].result # "raised" => utasks[i].rel \in copies

C15_Witness ==
    /\ PoolDrained
    /\ \E i, j \in UTaskIds :
          /\ i < j
          /\ utasks[i].result = "False"
          /\ utasks[j].result = "True"
          /\ utasks[j].rel \in copies

\* C16: with every external copy call returning, the incremental executor of
\* upload_initial_files terminates, and when it has, successful_uploads +
\* failed_uploads = len(files_to_upload), every file being counted once: as
\* successful when its task returned True, as failed otherwise.
C16_PoolDrainsAndCounts ==
    /\ [](PoolDrained =>
            /\ successful_uploads + failed_uploads = Len(files_to_upload)
            /\ successful_uploads =
                  Cardinality({i \in UTaskIds : utasks[i].result = "True"})
            /\ failed_uploads = Cardinality(FailedTasks)
            /\ Len(utasks) = Len(files_to_upload))
    /\ (spc = "L524") ~> PoolDrained

C16_Witness ==
    /\ PoolDrained
    /\ successful_uploads >= 1
    /\ \E i \in UTaskIds : utasks[i].result = "raised"
    /\ Len(files_to_upload) = 2

(***************************************************************************)
(* The event-delivery thread of the watch phase.                           *)
(***************************************************************************)
\* upload_file of sync_local_to_pod.py, on the watchdog thread
BaseUploadFileSteps ==
    BUfTestProcessing \/ BUfReadProcessing \/ BUfCancel \/ BUfSubmit \/ BUfStore

\* the watchdog thread is inside upload_file
HandlerRunning == ev.pc \notin {"idle", "crashed"}

\* every worker of the pool is running a task
AllWorkersBusy == Cardinality({k \in TaskIds : Executing(k)}) = inp.max_workers

\* on_created / on_modified would hand the notification for p to upload_file
WouldAccept(p) ==
    IF inp.script = "base"
    THEN AcceptedBase(FileEvent(p), LocalPath, inp.exclude_paths)
    ELSE Accepted(FileEvent(p), LocalPath, inp.exclude_paths)

\* C17: in the watch phase of either script the event-delivery thread never
\* runs any part of _upload_file (remote mkdir, remote copy): a step of the
\* handler leaves every task as it was, but for submitting a new one or
\* cancelling a queued one; the handler can always take its next step,
\* whatever the workers are doing, and once it has returned the next
\* notification is accepted, also when every worker is busy.
C17_HandlerNeverWaits ==
    /\ [](HandlerRunning => ENABLED (UploadFileSteps \/ BaseUploadFileSteps))
    /\ [](ev.pc = "idle" /\ NumEvents < MaxEvents =>
            \A p \in Paths : WouldAccept(p) => ENABLED Event(p))
    /\ [][ev' # ev =>
            \A k \in 1..Len(tasks') :
                \/ k > Len(tasks) /\ tasks'[k] = NewTask(ev.path)
                \/ k <= Len(tasks) /\ tasks'[k] = tasks[k]
                \/ k <= Len(tasks) /\ tasks[k].st = "queued"
                                   /\ tasks'[k] = [tasks[k] EXCEPT !.st = "cancelled"]]_vars

C17_Witness ==
    /\ ev.pc = "L735"
    /\ AllWorkersBusy
    /\ \E k \in TaskIds : tasks[k].st = "cp" /\ tasks[k].path # ev.path

(***************************************************************************)
(* Properties of the watch phase of sync_local_to_pod.py.                  *)
(***************************************************************************)
\* C19: in the watcher of sync_local_to_pod.py at most one _upload_file task
\* of a path is executing at any time, under every interleaving of the
\* create/modify events of that path.
C19_BaseOneUploadPerPath ==
    inp.script = "base" =>
        \A p \in Paths : Cardinality({k \in TasksOf(p) : Executing(k)}) <= 1

\* C20: in the watcher of sync_local_to_pod.py a task submitted to the pool
\* is never cancelled by a later event of its path, so that every submitted
\* _upload_file task is run.
C20_BaseNeverCancelled ==
    inp.script = "base" => \A k \in TaskIds : tasks[k].st # "cancelled"

(***************************************************************************)
(* The bulk archive transfer: the archive path of upload_initial_files and *)
(* the forced full synchronisation of main.                                *)
(***************************************************************************)
\* C18: in every bulk archive transfer the steps run in the order create
\* archive, copy archive, remote extract, and a failed step ends the bulk
\* path: the archive is copied only after it was created, the remote extract
\* (which in forced mode clears the target directory first) is run only
\* after a copy that succeeded, and success is reported only when the remote
\* tree holds the content of the archive.
C18_BulkStepsAbortOnFailure ==
    /\ "archive_cp" \in issued => "compress" \in issued
    /\ "extract" \in issued =>
          "archive_cp" \in issued /\ "archive_cp_failed" \notin issued
    /\ "target_cleared" \in issued => "archive_cp_failed" \notin issued
    /\ "bulk_success" \in issued =>
          {"compress", "archive_cp", "extracted"} \subseteq issued

C18_Witness ==
    /\ "archive_cp_failed" \in issued
    /\ archive # {}
    /\ spc = "done"

(***************************************************************************)
(* The configured archive threshold.                                       *)
(***************************************************************************)
\* C21: the optimized script takes the archive path exactly when the number
\* of pending files exceeds the configured compress_threshold (50 when the
\* configuration file does not set it).
C21_ArchiveOverConfiguredThreshold ==
    (inp.script = "optimized" /\ ScanDone /\ spc # "L336") =>
        (("compress" \in issued \/ spc = "L384")
            <=> (Len(files_to_upload) > inp.compress_threshold))

(***************************************************************************)
(* The startup checks of main.                                             *)
(***************************************************************************)
\* C22: when a required configuration field is missing, the local root does
\* not exist or no running pod is found, main exits before any remote
\* operation of the synchronisation (mkdir, listing, copy, archive transfer)
\* is issued and before the watcher is started.
C22_StartupFailureExitsFirst ==
    (inp.missing_fields # {} \/ ~inp.local_exists \/ ~inp.pod_running) =>
        /\ spc \in {"M1041", "exited"}
        /\ issued = {} /\ copies = {} /\ archive = {} /\ utasks = <<>>
        /\ fetches = 0 /\ scans = 0
        /\ timers = <<>> /\ tasks = <<>> /\ NumEvents = 0

C22_Witness ==
    /\ spc = "exited"
    /\ ~inp.pod_running
    /\ inp.missing_fields = {} /\ inp.local_exists

(***************************************************************************)
(* The per-path state of the debounced watcher.                            *)
(***************************************************************************)
\* the armed timers of path p
ArmedTimers(p) == {t \in TimerIds : timers[t].path = p /\ Armed(t)}

\* the upload of p the handler knows of is not done
InFlight(p) == processing_files[p] # 0 /\ ~Done(processing_files[p])

\* C23: in the debounced watcher there is at every reachable state at most
\* one armed (started, not cancelled, not yet fired) debounce timer per path,
\* and debounce_timers[p] refers to it.
C23_OneArmedTimerPerPath ==
    inp.script = "optimized" =>
        \A p \in Paths :
            /\ Cardinality(ArmedTimers(p)) <= 1
            /\ \A t \in ArmedTimers(p) : debounce_timers[p] = t

\* C30: in the debounced watcher a path never has an armed debounce timer
\* while its upload is in flight, and pending_uploads holds a path only
\* while an upload of that path is in flight.
C30_FourStates ==
    inp.script = "optimized" =>
        \A p \in Paths :
            /\ InFlight(p) => ArmedTimers(p) = {}
            /\ p \in pending_uploads => InFlight(p)

\* the step is the return of upload_file
HandlerReturns == ev.pc \notin {"idle", "crashed"} /\ ev'.pc = "idle"

\* C24: in the debounced watcher an accepted event for a path whose upload
\* is in flight (from the arrival of the event to the return of upload_file)
\* sets pending_uploads[path], leaves the in-flight task as it is, arms no
\* debounce timer and submits no task.
C24_EventDuringUploadSetsFlag ==
    [][(HandlerReturns /\ ev.busy /\ \E k \in TasksOf(ev.path) : ~Done(k)) =>
            /\ ev.path \in pending_uploads'
            /\ tasks' = tasks
            /\ Len(timers') = Len(timers)]_vars

\* the step is executor.submit in the callback of timer t
SubmitsBy(t) == timers[t].st = "L761" /\ timers'[t].st = "L762"

\* the step is the store of the retrigger flag in the callback of timer t
SetsFlagBy(t) == timers[t].st = "L752" /\ timers'[t].st = "finished"

\* C25: in the debounced watcher tasks are submitted only by the callback of
\* a debounce timer, never by the event handler; the callback of a timer
\* of a path with no upload in flight submits one _upload_file task of that
\* path, and with an upload in flight it submits nothing and sets the
\* retrigger flag.
C25_OnlyTimersSubmit ==
    [][/\ Len(tasks') > Len(tasks) =>
             /\ ev' = ev
             /\ \E t \in TimerIds :
                   SubmitsBy(t) /\ tasks' = Append(tasks, NewTask(timers[t].path))
       /\ \A t \in TimerIds :
             SubmitsBy(t) => \A k \in TasksOf(timers[t].path) : Done(k)
       /\ \A t \in TimerIds :
             SetsFlagBy(t) => /\ tasks' = tasks
                              /\ \E k \in TasksOf(timers[t].path) : ~Done(k)]_vars

\* the step ends the finally block of task k
FinallyEnds(k) == tasks[k].st \in {"L812", "L815", "L816", "L822"} /\ tasks'[k].st = "exit"

\* the timers the finally block of task k has armed
RearmedBy(k) == {t \in 1..Len(timers') : timers'[t].by = k}

\* C26: in the debounced watcher, when an _upload_file task ends: if the
\* retrigger flag of its path was set, the flag is cleared and exactly one
\* new debounce timer is armed for the path, which debounce_timers refers
\* to; otherwise no timer is armed by the task; either way the path is left
\* without an entry in processing_files and in pending_uploads.
C26_CompletionRearmsOrClears ==
    [][\A k \in TaskIds :
          FinallyEnds(k) =>
              LET p == tasks[k].path IN
              /\ Cardinality(RearmedBy(k)) <= 1
              /\ tasks[k].st = "L822" <=> RearmedBy(k) # {}
              /\ \A t \in RearmedBy(k) :
                    /\ timers'[t] = [NewTimer(p) EXCEPT !.by = k]
                    /\ debounce_timers'[p] = t
              /\ processing_files'[p] = 0
              /\ p \notin pending_uploads']_vars

\* the notifications the handler has to ignore: directory events, delete and
\* move events, paths with a dot-directory above the file, excluded paths and
\* editor/temporary names
Filtered(e) ==
    LET rel == RelPath(e.src_path, LocalPath)
        name == Basename(e.src_path)
        dirs == SplitParts(SubSeq(rel, 1, Len(rel) - Len(name)))
    IN \/ e.is_directory
       \/ e.event_type \in {"deleted", "moved"}
       \/ \E d \in dirs : d # <<>> /\ Head(d) = "."
       \/ ExcludedBy(rel, inp.exclude_paths)
       \/ IsTempName(name)

\* C27: a notification that is a directory event, a delete or move event, lies
\* inside a dot-directory, matches an exclusion or carries a temporary-file
\* name is one the handler returns from before upload_file, and its delivery
\* leaves debounce_timers, processing_files and pending_uploads as they were,
\* arms no timer and submits no task
C27_FilteredEventsChangeNothing ==
    /\ [](\A e \in OtherEvents :
             Filtered(e) => ~Handled(e, LocalPath, inp.exclude_paths))
    /\ [][evCount'["ignored"] # evCount["ignored"] =>
             UNCHANGED <<debounce_timers, processing_files, pending_uploads,
                         timers, tasks, ev>>]_vars

\* a filtered notification was delivered while a timer or an upload existed
C27_Witness ==
    /\ evCount["ignored"] = 1
    /\ timers # <<>>
    /\ \E p \in Paths : debounce_timers[p] # 0 \/ processing_files[p] # 0

\* what the handler holds for one path: its dictionary entries, its timers
\* and its tasks
PathState(q) ==
    <<debounce_timers[q], processing_files[q], q \in pending_uploads,
      {<<t, timers[t]>> : t \in {u \in TimerIds : timers[u].path = q}},
      {<<k, tasks[k]>> : k \in TasksOf(q)}>>

TimerStepOf(t) ==
    \/ Fire(t) \/ DuTestTimer(t) \/ DuDelTimer(t) \/ DuTestProcessing(t)
    \/ DuReadProcessing(t) \/ DuTestDone(t) \/ DuSetPending(t)
    \/ DuSubmit(t) \/ DuStore(t)

WorkerStepOf(k) ==
    \/ CopyReturn(k) \/ FinTestProcessing(k) \/ FinDelProcessing(k)
    \/ FinTestPending(k) \/ FinDelPending(k) \/ FinArm(k) \/ Complete(k)

Replaced(t) ==
    /\ timers[t].cancel_called
    /\ \E u \in TimerIds : u > t /\ timers[u].path = timers[t].path /\ timers[u].by = 0

\* C29: once upload_file has cancelled the timer of a path and armed its
\* replacement, the callback of the cancelled timer takes no step of
\* _debounced_upload: it submits no task and removes no entry of
\* debounce_timers.
C29_CancelledTimerNeverRuns ==
    [][\A t \in TimerIds :
          (Replaced(t) /\ timers'[t] # timers[t]) =>
              /\ tasks' = tasks
              /\ debounce_timers' = debounce_timers]_vars

\* nothing of the watcher is running: the handler has returned, no timer is
\* armed or in its callback, no task is queued or executing
Quiescent ==
    /\ ev.pc \in {"idle", "crashed"}
    /\ \A t \in TimerIds : ~IsAlive(t)
    /\ \A k \in TaskIds : Done(k)

\* C31: whenever the debounced watcher is quiescent, processing_files,
\* debounce_timers and pending_uploads hold no entry for any path.
C31_QuiescentTablesEmpty ==
    Quiescent =>
        /\ \A p \in Paths : debounce_timers[p] = 0 /\ processing_files[p] = 0
        /\ pending_uploads = {}

\* C32: in both watchers an _upload_file task that has ended, whatever its
\* outcome, has left no entry of its own in processing_files (the entry of the
\* path is absent or belongs to a later task), and no thread has crashed.
C32_EndedTaskLeavesNoEntry ==
    /\ ev.pc # "crashed"
    /\ \A k \in TaskIds :
          tasks[k].st = "done" => processing_files[tasks[k].path] # k

\* compress_dir has returned in the archive path of upload_initial_files
ArchiveBuilt == "compress" \in issued /\ (spc \in {"L398", "L409"} \/ "archive_cp" \in issued)

C34_PoolBound ==
    /\ [](Cardinality({i \in UTaskIds : URunning(i)}) <= inp.max_workers)
    /\ [](Cardinality({k \in TaskIds : Executing(k)}) <= inp.max_workers)
    /\ [](\A i \in UTaskIds :
            (/\ spc = "L524"
             /\ utasks[i].st = "queued"
             /\ \A j \in UTaskIds : j < i => utasks[j].st # "queued"
             /\ Cardinality({j \in UTaskIds : URunning(j)}) < inp.max_workers)
            => ENABLED UStart(i))
    /\ [](\A k \in TaskIds :
            (/\ tasks[k].st = "queued"
             /\ \A j \in TaskIds : j < k => tasks[j].st # "queued"
             /\ Cardinality({j \in TaskIds : Executing(j)}) < inp.max_workers)
            => ENABLED Start(k))
    /\ [][/\ Len(tasks') >= Len(tasks)
          /\ utasks # <<>> => Len(utasks') = Len(utasks) \/ utasks' = <<>>
          /\ \A i \in UTaskIds :
                (utasks' # <<>> /\ utasks[i].st = "queued" /\ utasks'[i].st # "queued") =>
                    /\ \A j \in UTaskIds : j < i => utasks[j].st # "queued"
                    /\ utasks'[i].result \in {"none", "raised"}
          /\ \A k \in TaskIds :
                (tasks[k].st = "queued" /\ tasks'[k].st # "queued") =>
                    /\ \A j \in TaskIds : j < k => tasks[j].st # "queued"
                    /\ Executing(k)']_vars

\* every worker of the watch phase is busy and a later task waits
C34_Witness ==
    /\ spc = "off"
    /\ Cardinality({k \in TaskIds : Executing(k)}) = inp.max_workers
    /\ \E k \in TaskIds : tasks[k].st = "queued"

\* C35: no local update is lost across the hand-off: once the watcher is
\* running and has nothing left to do (the handler is idle, no timer is armed,
\* no task is queued or executing), no watched file holds a change that no
\* copy call has read.
C35_NoUpdateLostAtHandoff ==
    (spc = "off" /\ WatchAtRest) => \A p \in Paths : ~dirty[p]

\* C36: in the incremental path, once the directories are pruned, the remote
\* parent directory of every pending file is in filtered_dirs or is a
\* path-prefix ancestor of a directory in filtered_dirs.
C36_PruningKeepsNeededDirs ==
    spc \in {"L469", "L524"} =>
        \A i \in 1..Len(files_to_upload) :
            LET parent == Dirname(PathJoin(RemotePath, files_to_upload[i]))
            IN \E j \in 1..Len(filtered_dirs) :
                  \/ filtered_dirs[j] = parent
                  \/ StartsWith(filtered_dirs[j], parent \o <<"/">>)

\* the pruning has dropped the parent directory of a pending file
C36_Witness ==
    /\ spc = "L469"
    /\ \E i \in 1..Len(files_to_upload) :
          Dirname(PathJoin(RemotePath, files_to_upload[i])) \notin Range(filtered_dirs)

\* C37: in sync_local_to_pod.py the archive create_compressed_archive builds
\* holds every file the scan has placed in files_to_upload.
C37_BaseArchiveHoldsPending ==
    (inp.script = "base" /\ ArchiveBuilt) =>
        \A i \in 1..Len(files_to_upload) : files_to_upload[i] \in archive

\* C38: an event for a file whose root-relative path has no component that
\* starts with '.', whose name is no temporary-file name and which matches no
\* exclusion pattern reaches upload_file, whatever the path of the watched
\* root is.
C38_AcceptanceIgnoresRoot ==
    \A p \in Paths :
        (/\ ~HiddenPath(SrcRel(p))
         /\ ~IsTempName(Basename(SrcRel(p)))
         /\ ~ExcludedBy(SrcRel(p), inp.exclude_paths))
        => IF inp.script = "base"
           THEN AcceptedBase(WatchedEvent(p), inp.local_path, inp.exclude_paths)
           ELSE Accepted(WatchedEvent(p), inp.local_path, inp.exclude_paths)

\* C39: once the pool of upload_initial_files has drained, completed_files
\* equals the number of upload_single_file tasks that have returned True or
\* False: no increment of the counter is lost.
C39_NoIncrementLost ==
    (utasks # <<>> /\ \A i \in UTaskIds : utasks[i].st = "done") =>
        completed_files = Cardinality({i \in UTaskIds : utasks[i].result \in {"True", "False"}})

====
